---------------------------- MODULE Spec2Model ----------------------------
(***************************************************************************)
(* CANSLIM scoring and ranking engine: composite scorer, relative-strength *)
(* ranker with its date-keyed cache file, component evaluators on missing  *)
(* input, the market regime classifier (distribution days, follow-through  *)
(* day, EMA trend), trend qualification and pullback entries, the          *)
(* screener's loop, the loading of the settings, and the backtest's        *)
(* evaluation as of a date.                                                *)
(*                                                                         *)
(* Scores are exact rationals <<numerator, denominator>> in lowest terms   *)
(* with a positive denominator; Python's None is the string "None".        *)
(***************************************************************************)
EXTENDS Integers, Sequences, FiniteSets, TLC

None == "None"

(***************************************************************************)
(* Rational arithmetic                                                     *)
(***************************************************************************)
Abs(x) == IF x < 0 THEN -x ELSE x

RECURSIVE GCD(_, _)
GCD(a, b) == IF b = 0 THEN a ELSE GCD(b, a % b)

Rat(n, d) ==
    LET g == GCD(Abs(n), Abs(d))
        s == IF d < 0 THEN -1 ELSE 1
    IN  <<(s * n) \div g, (s * d) \div g>>

RInt(n) == <<n, 1>>
RAdd(x, y) == Rat(x[1] * y[2] + y[1] * x[2], x[2] * y[2])
RSub(x, y) == Rat(x[1] * y[2] - y[1] * x[2], x[2] * y[2])
RMul(x, y) == Rat(x[1] * y[1], x[2] * y[2])
RDiv(x, y) == Rat(x[1] * y[2], x[2] * y[1])
RLe(x, y) == x[1] * y[2] <= y[1] * x[2]
RLt(x, y) == x[1] * y[2] < y[1] * x[2]
RMax(x, y) == IF RLt(x, y) THEN y ELSE x
RMin(x, y) == IF RLt(y, x) THEN y ELSE x
RClip(x, lo, hi) == RMin(RMax(x, lo), hi)
RZero == RInt(0)
ROne == RInt(1)

(***************************************************************************)
(* config/settings.py: composite weights                                   *)
(***************************************************************************)
\* A C weight that makes the seven weights sum to 1.1.
CANSLIM_WEIGHT_C_Heavy == Rat(30, 100)
CANSLIM_WEIGHT_C == Rat(20, 100)
CANSLIM_WEIGHT_A == Rat(15, 100)
CANSLIM_WEIGHT_N == Rat(10, 100)
CANSLIM_WEIGHT_S == Rat(10, 100)
CANSLIM_WEIGHT_L == Rat(20, 100)
CANSLIM_WEIGHT_I == Rat(10, 100)
CANSLIM_WEIGHT_M == Rat(15, 100)

VARIABLES
    \* composite scorer (core/canslim/core.py, backtest.py)
    scores,             \* the seven sub-scores handed to the scorer
    current_growth,     \* raw metric of evaluate_c: None or computed
    annual_growth,      \* raw metric of evaluate_a: None or computed
    has_fundamentals,   \* the availability flag the scorer derived
    total_score,        \* the composite, None before scoring
    scorer,             \* which scorer produced total_score
    \* relative-strength ranking (core/momentum_analysis.py, backtest.py)
    all_closes,         \* close-price frame: sequence of [Ticker, data] columns
    eval_date,          \* number of rows dated on or before the evaluation date
    rs_scores_df,       \* the ranked table handed to calculate_rs_momentum
    rs_momentum,        \* results of calculate_rs_momentum, per symbol asked
    rs_at_date,         \* results of _calculate_rs_at_date, per symbol asked
    driver,             \* the program running: the screener or the backtest
    next_symbol,        \* position of the driver's loop over its symbols
    \* the daily RS cache (core/momentum_analysis.py)
    today,              \* datetime.now().date(), as a day number
    cache_file,         \* rs_scores_cache.csv: existence, mtime date, rows
    pc,                 \* per caller: where it is in calculate_rs_scores_for_tickers
    tickers,            \* per caller: the tickers argument
    rs_df,              \* per caller: the ranked table it computed
    ret,                \* per caller: what the call returned
    lookup,             \* per caller: calculate_rs_momentum on the returned value
    cache_check,        \* per caller: what the cache check found
    called_on,          \* per caller: the date on which it checked the cache
    calls_made,         \* number of calls started
    rankings,           \* per date: universe downloads that ended in a ranked table
    cache_failures,     \* per date: cache reads and writes that raised
    \* the component evaluators (core/canslim/*.py)
    evaluator,          \* the evaluator just called, None between calls
    ev_args,            \* its arguments
    ev_out,             \* its outcome
    \* the market regime (core/canslim/m_market_direction.py)
    benchmark,          \* the benchmark's daily bars, oldest first
    market_step,        \* loaded, counted or scored
    distribution_days,  \* the distribution-day count
    dist_score,         \* the distribution score
    regime_caller,      \* the regime function called, None before the call
    market_trend,       \* the MarketTrend (or the backtest's tuple) it returned
    ewm_calls,          \* closes.ewm(...).mean() calls made by it
    ewm_out,            \* what those calls gave, NoEwm when there were none
    market_asof,        \* number of bars dated on or before the evaluation date
    at_date_out,        \* what _evaluate_market_at_date gave on evaluate_m's bars
    \* trend qualification and pullback entries (core/trend_analysis.py,
    \* core/pullback_entries.py)
    trend_history,      \* the symbol's price history with its indicator columns
    trend_out,          \* what analyze_trend_strength returned
    trend_called,       \* whether it was called
    pullback_args,      \* keyword arguments given to identify_pullback_entries
    pullback_out,       \* what identify_pullback_entries handed back
    pullback_call,      \* the module whose function was called, and the first bar given
    \* the screener (core/stock_screening.py)
    scr_symbols,        \* the symbols argument of screen_stocks_canslim
    scr_index,          \* position of its loop in scr_symbols, from 1
    scr_results,        \* its results list
    scr_log,            \* per symbol evaluated: what the evaluation did
    scr_pc,             \* "loop", "returned", or "aborted" by an exception
    \* the configuration (config/settings.py)
    settings_file,      \* what config/settings.py assigns
    settings,           \* the imported module, {} before the import
    config_error,       \* whether the import raised
    config_scores,      \* the sub-scores of the symbol scored with it
    config_total,       \* the composite computed with it, Missing before
    \* the backtest (backtest.py)
    bt_spy,             \* benchmark bars dated on or before the evaluation date
    bt_tdata,           \* the ticker's bars dated on or before it
    bt_closes,          \* the close-price frame's rows dated on or before it
    bt_future,          \* per run: what its data hold after that date
    bt_market,          \* per run: what _evaluate_market_at_date returned
    bt_ewm,             \* per run: what the ewm calls gave
    bt_sliced,          \* per run: the benchmark bars the market call used
    bt_record           \* per run: the values recorded for (ticker, eval_date)

compVars == <<scores, current_growth, annual_growth, has_fundamentals,
              total_score, scorer>>

rankVars == <<all_closes, eval_date, rs_scores_df, rs_momentum, rs_at_date,
              driver, next_symbol>>

cacheVars == <<today, cache_file, pc, tickers, rs_df, ret, lookup, cache_check,
               called_on, calls_made, rankings, cache_failures>>

evalVars == <<evaluator, ev_args, ev_out>>

marketVars == <<benchmark, market_step, distribution_days, dist_score,
                regime_caller, market_trend, ewm_calls, ewm_out, market_asof,
                at_date_out>>

trendVars == <<trend_history, trend_out, trend_called, pullback_args, pullback_out,
              pullback_call>>

screenVars == <<scr_symbols, scr_index, scr_results, scr_log, scr_pc>>

configVars == <<settings_file, settings, config_error, config_scores, config_total>>

backtestVars == <<bt_spy, bt_tdata, bt_closes, bt_future, bt_market, bt_ewm,
                  bt_sliced, bt_record>>

vars == <<compVars, rankVars, cacheVars, evalVars, marketVars, trendVars, screenVars, configVars, backtestVars>>

(***************************************************************************)
(* Composite scorer                                                        *)
(***************************************************************************)
ScoreSteps == 2
ScoreGrid == {Rat(k, ScoreSteps) : k \in 0..ScoreSteps}
Components == {"C", "A", "N", "S", "L", "I", "M"}

\* The weighted sum of the full path: all seven components.
FullScore(c, a, n, s, l, i, m) ==
    RMul(RAdd(RAdd(RAdd(RAdd(RAdd(RAdd(
        RMul(CANSLIM_WEIGHT_C, c),
        RMul(CANSLIM_WEIGHT_A, a)),
        RMul(CANSLIM_WEIGHT_N, n)),
        RMul(CANSLIM_WEIGHT_S, s)),
        RMul(CANSLIM_WEIGHT_L, l)),
        RMul(CANSLIM_WEIGHT_I, i)),
        RMul(CANSLIM_WEIGHT_M, m)), RInt(100))

tech_weight_sum ==
    RAdd(RAdd(RAdd(RAdd(CANSLIM_WEIGHT_N, CANSLIM_WEIGHT_S),
        CANSLIM_WEIGHT_L), CANSLIM_WEIGHT_I), CANSLIM_WEIGHT_M)

\* The technical-only path without the division by tech_weight_sum.
TechScore_NotRenormalised(n, s, l, i, m) ==
    RMul(RAdd(RAdd(RAdd(RAdd(
        RMul(CANSLIM_WEIGHT_N, n),
        RMul(CANSLIM_WEIGHT_S, s)),
        RMul(CANSLIM_WEIGHT_L, l)),
        RMul(CANSLIM_WEIGHT_I, i)),
        RMul(CANSLIM_WEIGHT_M, m)), RInt(100))

\* The technical-only path: C and A dropped, the rest renormalised.
TechScore(n, s, l, i, m) ==
    RMul(RAdd(RAdd(RAdd(RAdd(
        RMul(RDiv(CANSLIM_WEIGHT_N, tech_weight_sum), n),
        RMul(RDiv(CANSLIM_WEIGHT_S, tech_weight_sum), s)),
        RMul(RDiv(CANSLIM_WEIGHT_L, tech_weight_sum), l)),
        RMul(RDiv(CANSLIM_WEIGHT_I, tech_weight_sum), i)),
        RMul(RDiv(CANSLIM_WEIGHT_M, tech_weight_sum), m)), RInt(100))

\* The availability flag never cleared: the full formula on every symbol.
HasFundamentals_Always(cg, ag) == TRUE

HasFundamentals(cg, ag) == cg # None \/ ag # None

compute_canslim_score(c, a, n, s, l, i, m, hf) ==
    IF hf THEN FullScore(c, a, n, s, l, i, m) ELSE TechScore(n, s, l, i, m)

\* Sub-scores as the evaluators deliver them: each in [0,1]; evaluate_c and
\* evaluate_a return 0.0 whenever they return None as growth.
CompInit ==
    /\ current_growth \in {None, "computed"}
    /\ annual_growth \in {None, "computed"}
    /\ scores \in [Components -> ScoreGrid]
    /\ current_growth = None => scores["C"] = RZero
    /\ annual_growth = None => scores["A"] = RZero
    /\ has_fundamentals = None
    /\ total_score = None
    /\ scorer = None

\* core/canslim/core.py, step 6 of evaluate_canslim.
EvaluateCanslim ==
    /\ scorer = None
    /\ has_fundamentals' = HasFundamentals(current_growth, annual_growth)
    /\ total_score' =
         IF has_fundamentals'
         THEN FullScore(scores["C"], scores["A"], scores["N"], scores["S"],
                        scores["L"], scores["I"], scores["M"])
         ELSE TechScore(scores["N"], scores["S"], scores["L"], scores["I"],
                        scores["M"])
    /\ scorer' = "evaluate_canslim"
    /\ UNCHANGED <<scores, current_growth, annual_growth>>

\* backtest.py, run_backtest: the flag from the stored growths, then
\* _compute_canslim_score.
RunBacktestScore ==
    /\ scorer = None
    /\ has_fundamentals' = HasFundamentals(current_growth, annual_growth)
    /\ total_score' =
         compute_canslim_score(scores["C"], scores["A"], scores["N"],
                               scores["S"], scores["L"], scores["I"],
                               scores["M"], has_fundamentals')
    /\ scorer' = "run_backtest"
    /\ UNCHANGED <<scores, current_growth, annual_growth>>

\* backtest.py, _compute_canslim_score called as a function of its eight
\* arguments: any c and a in [0,1], either value of has_fundamentals.
ComputeCanslimScore ==
    /\ scorer = None
    /\ \E c \in ScoreGrid, a \in ScoreGrid, hf \in BOOLEAN :
         /\ scores' = [scores EXCEPT !["C"] = c, !["A"] = a]
         /\ has_fundamentals' = hf
         /\ total_score' =
              compute_canslim_score(c, a, scores["N"], scores["S"],
                                    scores["L"], scores["I"], scores["M"], hf)
    /\ scorer' = "_compute_canslim_score"
    /\ UNCHANGED <<current_growth, annual_growth>>

(***************************************************************************)
(* Relative-strength ranking                                               *)
(***************************************************************************)
\* A price is a natural number; NaN (a missing bar) is -1.
NaN == 0 - 1

days_per_q == 65
RS_PERCENTILE_MULTIPLIER == 98
RS_PERCENTILE_MIN == 1
MIN_RANKED_UNIVERSE == 10

\* A missing weighted performance: Python's None, and the float NaN.
NonePerf == <<>>
NaNPerf == <<0, 0>>
IsPerf(wp) == wp # NonePerf /\ wp # NaNPerf

\* data_series.iloc[-k]
ILocEnd(series, k) == series[Len(series) - k + 1]

\* calculate_weighted_performance with >= for the length test turned into >.
calculate_weighted_performance_OffByOne(data_series) ==
    IF Len(data_series) <= 4 * days_per_q THEN NonePerf
    ELSE LET curr == ILocEnd(data_series, 1)
             q1 == ILocEnd(data_series, days_per_q)
             q2 == ILocEnd(data_series, 2 * days_per_q)
             q3 == ILocEnd(data_series, 3 * days_per_q)
             q4 == ILocEnd(data_series, 4 * days_per_q)
         IN  IF 0 \in {q1, q2, q3, q4} THEN NonePerf
             ELSE IF NaN \in {curr, q1, q2, q3, q4} THEN NaNPerf
             ELSE RAdd(RAdd(RAdd(
                    RMul(Rat(40, 100), RSub(Rat(curr, q1), ROne)),
                    RMul(Rat(20, 100), RSub(Rat(q1, q2), ROne))),
                    RMul(Rat(20, 100), RSub(Rat(q2, q3), ROne))),
                    RMul(Rat(20, 100), RSub(Rat(q3, q4), ROne)))

calculate_weighted_performance(data_series) ==
    IF Len(data_series) < 4 * days_per_q THEN NonePerf
    ELSE LET curr == ILocEnd(data_series, 1)
             q1 == ILocEnd(data_series, days_per_q)
             q2 == ILocEnd(data_series, 2 * days_per_q)
             q3 == ILocEnd(data_series, 3 * days_per_q)
             q4 == ILocEnd(data_series, 4 * days_per_q)
         IN  IF 0 \in {q1, q2, q3, q4} THEN NonePerf
             ELSE IF NaN \in {curr, q1, q2, q3, q4} THEN NaNPerf
             ELSE RAdd(RAdd(RAdd(
                    RMul(Rat(40, 100), RSub(Rat(curr, q1), ROne)),
                    RMul(Rat(20, 100), RSub(Rat(q1, q2), ROne))),
                    RMul(Rat(20, 100), RSub(Rat(q2, q3), ROne))),
                    RMul(Rat(20, 100), RSub(Rat(q3, q4), ROne)))

\* Series.dropna()
DropNa(series) == SelectSeq(series, LAMBDA x : x # NaN)

\* DataFrame.ffill() on one column: a missing bar takes the last known price.
FFill(series) ==
    [j \in 1..Len(series) |->
        IF series[j] # NaN THEN series[j]
        ELSE LET known == {i \in 1..j : series[i] # NaN}
             IN  IF known = {} THEN NaN
                 ELSE series[CHOOSE i \in known : \A m \in known : m <= i]]

AllNaN(series) == \A i \in 1..Len(series) : series[i] = NaN

\* DataFrame.dropna(axis=1, how="all")
DropEmptyColumns(frame) == SelectSeq(frame, LAMBDA col : ~AllNaN(col.data))

\* frame.loc[:eval_date]
SliceTo(frame, n) ==
    [c \in 1..Len(frame) |->
        [Ticker |-> frame[c].Ticker, data |-> SubSeq(frame[c].data, 1, n)]]

Columns(frame) == {frame[c].Ticker : c \in 1..Len(frame)}

\* Series.rank(pct=True): average rank over ties, divided by the count.
\* perfs is a sequence of [Ticker, Weighted_Perf] rows.
PctRank(perfs, i) ==
    LET less == Cardinality({j \in 1..Len(perfs) :
                    RLt(perfs[j].Weighted_Perf, perfs[i].Weighted_Perf)})
        same == Cardinality({j \in 1..Len(perfs) :
                    perfs[j].Weighted_Perf = perfs[i].Weighted_Perf})
    IN  Rat(2 * less + same + 1, 2 * Len(perfs))

\* A rank that gives tied rows the lowest rank of the tie (method="min")
\* and counts from 0.
RsScoreOf_ZeroBased(perfs, i) ==
    LET less == Cardinality({j \in 1..Len(perfs) :
                    RLt(perfs[j].Weighted_Perf, perfs[i].Weighted_Perf)})
    IN  RAdd(RMul(Rat(less, Len(perfs)), RInt(RS_PERCENTILE_MULTIPLIER + 2)),
             RInt(RS_PERCENTILE_MIN - 1))

\* A rank inverted: the weakest performer gets the highest percentile.
RsScoreOf_Descending(perfs, i) ==
    LET more == Cardinality({j \in 1..Len(perfs) :
                    RLt(perfs[i].Weighted_Perf, perfs[j].Weighted_Perf)})
        same == Cardinality({j \in 1..Len(perfs) :
                    perfs[j].Weighted_Perf = perfs[i].Weighted_Perf})
    IN  RAdd(RMul(Rat(2 * more + same + 1, 2 * Len(perfs)),
                  RInt(RS_PERCENTILE_MULTIPLIER)), RInt(RS_PERCENTILE_MIN))

\* rank(pct=True) * 98 + 1
RsScoreOf(perfs, i) ==
    RAdd(RMul(PctRank(perfs, i), RInt(RS_PERCENTILE_MULTIPLIER)),
         RInt(RS_PERCENTILE_MIN))

\* sort_values(by="RS_Score", ascending=False); tied rows keep column order.
RECURSIVE SortByScoreDesc(_)
SortByScoreDesc(rows) ==
    IF rows = <<>> THEN <<>>
    ELSE LET i == CHOOSE k \in 1..Len(rows) :
                    /\ \A j \in 1..Len(rows) : RLe(rows[j].RS_Score, rows[k].RS_Score)
                    /\ \A j \in 1..(k - 1) : RLt(rows[j].RS_Score, rows[k].RS_Score)
         IN  <<rows[i]>> \o SortByScoreDesc(
                 SubSeq(rows, 1, i - 1) \o SubSeq(rows, i + 1, Len(rows)))

\* What a call hands back: a DataFrame (rows; none for pd.DataFrame()) or None.
DataFrame(rows) == [kind |-> "DataFrame", rows |-> rows]
EmptyDataFrame == DataFrame(<<>>)
PyNone == [kind |-> "None", rows |-> <<>>]
NotCalled == [kind |-> "pending", rows |-> <<>>]

\* calculate_rs_scores_for_tickers from "Processing data alignment" to the
\* sorted table: ffill, drop empty columns, weighted performance, dropna,
\* percentile rank, sort.
RankDownloaded(full_data) ==
    LET filled == [c \in 1..Len(full_data) |->
                     [Ticker |-> full_data[c].Ticker,
                      data |-> FFill(full_data[c].data)]]
        kept == DropEmptyColumns(filled)
        rs_scores == [c \in 1..Len(kept) |->
                        [Ticker |-> kept[c].Ticker,
                         Weighted_Perf |-> calculate_weighted_performance(kept[c].data)]]
        ranked == SelectSeq(rs_scores, LAMBDA r : IsPerf(r.Weighted_Perf))
    IN  IF ranked = <<>> THEN EmptyDataFrame
        ELSE DataFrame(SortByScoreDesc(
                 [i \in 1..Len(ranked) |->
                    [Ticker |-> ranked[i].Ticker,
                     Weighted_Perf |-> ranked[i].Weighted_Perf,
                     RS_Score |-> RsScoreOf(ranked, i)]]))

\* The outcome of a lookup: the float returned, or an exception raised.
Returned(x) == [raised |-> FALSE, value |-> x]
Raised == [raised |-> TRUE, value |-> RZero]
NotAsked == [raised |-> FALSE, value |-> <<>>]

\* calculate_rs_momentum: None is not subscriptable (TypeError, not caught);
\* a frame without columns raises KeyError and a frame without the symbol
\* IndexError, both caught and turned into 0.0.
calculate_rs_momentum(symbol, df) ==
    IF df.kind = "None" THEN Raised
    ELSE LET hits == SelectSeq(df.rows, LAMBDA r : r.Ticker = symbol)
         IN  IF hits = <<>> THEN Returned(RZero) ELSE Returned(hits[1].RS_Score)

\* calculate_rs_scores_for_tickers ends after the save without a return
\* statement: the caller gets None, not the table.
AfterSave(table) == PyNone

\* backtest.py, _calculate_rs_at_date
calculate_rs_at_date(closes, ticker, date) ==
    LET sliced == DropEmptyColumns(SliceTo(closes, date))
        wps == [c \in 1..Len(sliced) |->
                  [Ticker |-> sliced[c].Ticker,
                   Weighted_Perf |->
                       calculate_weighted_performance(DropNa(sliced[c].data))]]
        perfs == SelectSeq(wps, LAMBDA r : r.Weighted_Perf # NonePerf)
        mine == {i \in 1..Len(perfs) : perfs[i].Ticker = ticker}
    IN  IF ticker \notin Columns(sliced) THEN Returned(RZero)
        ELSE IF mine = {} \/ Len(perfs) < MIN_RANKED_UNIVERSE THEN Returned(RZero)
        ELSE Returned(RsScoreOf(perfs, CHOOSE i \in mine : TRUE))

(***************************************************************************)
(* The ranking specification: a close-price frame of two tracked symbols   *)
(* and a reference universe, ranked live and as of an evaluation date.     *)
(***************************************************************************)
MaxBackground == 9
FrameLen == 4 * days_per_q + 1

TrackedA == "CRWD"
TrackedB == "GE"
Untracked == "VRT"
Symbols == <<TrackedA, TrackedB, Untracked>>
Asked == {Symbols[i] : i \in 1..Len(Symbols)}
Reference == <<"AAPL", "MSFT", "GOOGL", "AMZN", "NVDA", "META", "TSLA",
               "XOM", "JPM", "KO", "PG", "HD">>

\* Shapes of a column: quarter levels oldest to newest, and leading or
\* trailing missing bars ("halted": no bar on the last two dates).
SeriesKinds ==
    {"surging", "rising", "late", "flat", "falling", "zero", "short1",
     "short2", "gap", "halted", "allnan"}
RankedKinds == <<"rising", "late", "flat", "falling">>

Levels(kind) ==
    CASE kind = "surging" -> <<1, 1, 1, 1, 3>>
      [] kind = "rising"  -> <<1, 1, 1, 1, 2>>
      [] kind = "late"    -> <<1, 1, 1, 2, 2>>
      [] kind = "flat"    -> <<2, 2, 2, 2, 2>>
      [] kind = "falling" -> <<2, 2, 2, 2, 1>>
      [] kind = "zero"    -> <<0, 1, 1, 1, 1>>
      [] kind = "short1"  -> <<1, 2, 2, 2, 2>>
      [] kind = "short2"  -> <<1, 1, 2, 2, 2>>
      [] kind = "gap"     -> <<1, 1, 1, 1, 2>>
      [] kind = "halted"  -> <<1, 1, 1, 1, 3>>
      [] OTHER            -> <<1, 1, 1, 1, 1>>

MakeSeries(kind, len) ==
    [j \in 1..len |->
        LET k == len - j + 1
            lv == Levels(kind)
        IN  IF kind = "allnan" THEN NaN
            ELSE IF kind = "short1" /\ j <= 1 THEN NaN
            ELSE IF kind = "short2" /\ j <= 2 THEN NaN
            ELSE IF kind = "gap" /\ k = 1 THEN NaN
            ELSE IF kind = "halted" /\ k <= 2 THEN NaN
            ELSE IF k < days_per_q THEN lv[5]
            ELSE IF k < 2 * days_per_q THEN lv[4]
            ELSE IF k < 3 * days_per_q THEN lv[3]
            ELSE IF k < 4 * days_per_q THEN lv[2]
            ELSE lv[1]]

MakeFrame(kindA, kindB, nRef) ==
    <<[Ticker |-> TrackedA, data |-> MakeSeries(kindA, FrameLen)],
      [Ticker |-> TrackedB, data |-> MakeSeries(kindB, FrameLen)]>>
    \o [i \in 1..nRef |->
          [Ticker |-> Reference[i],
           data |-> MakeSeries(RankedKinds[((i - 1) % Len(RankedKinds)) + 1],
                               FrameLen)]]

RankInit ==
    /\ \E ka \in SeriesKinds, kb \in SeriesKinds, n \in 0..MaxBackground :
         all_closes = MakeFrame(ka, kb, n)
    /\ eval_date \in {FrameLen - 1, FrameLen}
    /\ rs_scores_df = NotCalled
    /\ rs_momentum = [t \in Asked |-> NotAsked]
    /\ rs_at_date = [t \in Asked |-> NotAsked]
    /\ driver \in {"screen_stocks_canslim", "run_backtest"}
    /\ next_symbol = 1

\* The screener's call of calculate_rs_scores_for_tickers: the table of a
\* same-day cache file (ranked and saved by an earlier call), or, on a cache
\* miss, what the function hands back after ranking and saving, or the empty
\* frame of a failed download.
RankUniverse ==
    /\ driver = "screen_stocks_canslim"
    /\ rs_scores_df = NotCalled
    /\ \E outcome \in {"cache hit", "cache miss", "all downloads failed"} :
         LET table == RankDownloaded(all_closes)
         IN  rs_scores_df' =
                 CASE outcome = "cache hit" -> table
                   [] outcome = "cache miss" ->
                          IF table = EmptyDataFrame THEN EmptyDataFrame
                          ELSE AfterSave(table)
                   [] OTHER -> EmptyDataFrame
    /\ UNCHANGED <<all_closes, eval_date, rs_momentum, rs_at_date, driver,
                   next_symbol>>

\* The screener's loop: calculate_rs_momentum(symbol, rs_scores_df) by way
\* of evaluate_l.
LookupRsMomentum ==
    /\ driver = "screen_stocks_canslim"
    /\ rs_scores_df # NotCalled
    /\ next_symbol <= Len(Symbols)
    /\ rs_momentum' =
         [rs_momentum EXCEPT ![Symbols[next_symbol]] =
             calculate_rs_momentum(Symbols[next_symbol], rs_scores_df)]
    /\ next_symbol' = next_symbol + 1
    /\ UNCHANGED <<all_closes, eval_date, rs_scores_df, rs_at_date, driver>>

\* The backtest's loop: _calculate_rs_at_date(all_closes, ticker, eval_date).
CalculateRsAtDate ==
    /\ driver = "run_backtest"
    /\ next_symbol <= Len(Symbols)
    /\ rs_at_date' =
         [rs_at_date EXCEPT ![Symbols[next_symbol]] =
             calculate_rs_at_date(all_closes, Symbols[next_symbol], eval_date)]
    /\ next_symbol' = next_symbol + 1
    /\ UNCHANGED <<all_closes, eval_date, rs_scores_df, rs_momentum, driver>>

(***************************************************************************)
(* The daily RS cache: calculate_rs_scores_for_tickers called by one or    *)
(* two workers, over several days, against the provider's price data.      *)
(***************************************************************************)
MaxDay == 2
MaxCalls == 3

Workers == {"w1", "w2"}

\* The constituents list when the fetch succeeds (a stand-in for the CSV),
\* and the fixed seed list returned when it fails.
Sp500Fetched == <<"AAPL", "MSFT", "XOM">>
Sp500Fallback == <<"AAPL", "MSFT", "GOOGL", "AMZN", "NVDA">>
get_sp500_tickers(fetch_ok) == IF fetch_ok THEN Sp500Fetched ELSE Sp500Fallback

Requests == {<<"CRWD">>, <<"GE">>}

\* What yf.download has for each ticker: a column per known ticker, a
\* failed ticker as a column of NaN.
ProviderOrder == <<"CRWD", "GE", "AAPL", "MSFT", "XOM", "GOOGL", "AMZN", "NVDA">>
ProviderKind(t) ==
    CASE t = "CRWD"  -> "surging"
      [] t = "GE"    -> "rising"
      [] t = "AAPL"  -> "late"
      [] t = "MSFT"  -> "flat"
      [] t = "XOM"   -> "falling"
      [] t = "GOOGL" -> "short2"
      [] t = "AMZN"  -> "allnan"
      [] OTHER       -> "zero"

SeqToSet(q) == {q[i] : i \in 1..Len(q)}

\* all_tickers = list(set(tickers + sp500)), then the concatenated batches.
DownloadAll(tks, sp500) ==
    LET all_tickers == SelectSeq(ProviderOrder,
                           LAMBDA t : t \in SeqToSet(tks) \cup SeqToSet(sp500))
    IN  [c \in 1..Len(all_tickers) |->
            [Ticker |-> all_tickers[c],
             data |-> MakeSeries(ProviderKind(all_tickers[c]), FrameLen)]]

\* The ranked table of each request, per outcome of the constituents fetch.
RankedFor ==
    [tks \in Requests, fetch_ok \in BOOLEAN |->
        RankDownloaded(DownloadAll(tks, get_sp500_tickers(fetch_ok)))]

NoFile == [exists |-> FALSE, mtime |-> 0, rows |-> <<>>]

\* A cache test that ignores the file's date.
CacheIsFresh_AnyDate(file, now) == file.exists

\* os.path.exists(cache_file) and file_time.date() == datetime.now().date()
CacheIsFresh(file, now) == file.exists /\ file.mtime = now

CacheInit ==
    /\ today = 1
    /\ cache_file = NoFile
    /\ pc = [p \in Workers |-> "idle"]
    /\ tickers = [p \in Workers |-> <<>>]
    /\ rs_df = [p \in Workers |-> NotCalled]
    /\ ret = [p \in Workers |-> NotCalled]
    /\ lookup = [p \in Workers |-> NotAsked]
    /\ cache_check = [p \in Workers |-> None]
    /\ called_on = [p \in Workers |-> 0]
    /\ calls_made = 0
    /\ rankings = [d \in 1..MaxDay |-> 0]
    /\ cache_failures = [d \in 1..MaxDay |-> 0]

\* No call in progress: the other specifications leave these alone.
CacheIdle ==
    /\ today = 1
    /\ cache_file = NoFile
    /\ pc = [p \in Workers |-> "idle"]
    /\ tickers = [p \in Workers |-> <<>>]
    /\ rs_df = [p \in Workers |-> NotCalled]
    /\ ret = [p \in Workers |-> NotCalled]
    /\ lookup = [p \in Workers |-> NotAsked]
    /\ cache_check = [p \in Workers |-> None]
    /\ called_on = [p \in Workers |-> 0]
    /\ calls_made = 0
    /\ rankings = [d \in 1..1 |-> 0]
    /\ cache_failures = [d \in 1..1 |-> 0]

\* A caller enters calculate_rs_scores_for_tickers(tickers).
Call(p) ==
    /\ pc[p] = "idle"
    /\ calls_made < MaxCalls
    /\ \E tks \in Requests : tickers' = [tickers EXCEPT ![p] = tks]
    /\ pc' = [pc EXCEPT ![p] = "check"]
    /\ ret' = [ret EXCEPT ![p] = NotCalled]
    /\ lookup' = [lookup EXCEPT ![p] = NotAsked]
    /\ cache_check' = [cache_check EXCEPT ![p] = None]
    /\ called_on' = [called_on EXCEPT ![p] = 0]
    /\ calls_made' = calls_made + 1
    /\ UNCHANGED <<today, cache_file, rs_df, rankings, cache_failures>>

\* 1. Check Cache: a file written today is read and returned; a read that
\* raises ("Cache unreadable") falls through to the recomputation.
CheckCache(p) ==
    /\ pc[p] = "check"
    /\ called_on' = [called_on EXCEPT ![p] = today]
    /\ IF CacheIsFresh(cache_file, today)
       THEN \E readable \in BOOLEAN :
              IF readable
              THEN /\ ret' = [ret EXCEPT ![p] = DataFrame(cache_file.rows)]
                   /\ cache_check' = [cache_check EXCEPT ![p] = "hit"]
                   /\ pc' = [pc EXCEPT ![p] = "done"]
                   /\ UNCHANGED cache_failures
              ELSE /\ cache_check' = [cache_check EXCEPT ![p] = "unreadable"]
                   /\ cache_failures' = [cache_failures EXCEPT ![today] = @ + 1]
                   /\ pc' = [pc EXCEPT ![p] = "download"]
                   /\ UNCHANGED ret
       ELSE /\ cache_check' = [cache_check EXCEPT ![p] =
                                 IF cache_file.exists THEN "stale" ELSE "absent"]
            /\ pc' = [pc EXCEPT ![p] = "download"]
            /\ UNCHANGED <<ret, cache_failures>>
    /\ UNCHANGED <<today, cache_file, tickers, rs_df, lookup, calls_made, rankings>>

\* 2. The universe (or the seed list), the batched download, the alignment
\* and the ranking. No frame downloaded, or no valid weighted performance:
\* an empty DataFrame is returned and nothing is cached.
DownloadAndRank(p) ==
    /\ pc[p] = "download"
    /\ \E fetch_ok \in BOOLEAN, download_ok \in BOOLEAN :
         LET table == RankedFor[tickers[p], fetch_ok]
         IN  IF ~download_ok \/ table = EmptyDataFrame
             THEN /\ ret' = [ret EXCEPT ![p] = EmptyDataFrame]
                  /\ pc' = [pc EXCEPT ![p] = "done"]
                  /\ UNCHANGED <<rs_df, rankings>>
             ELSE /\ rs_df' = [rs_df EXCEPT ![p] = table]
                  /\ rankings' = [rankings EXCEPT ![today] = @ + 1]
                  /\ pc' = [pc EXCEPT ![p] = "save"]
                  /\ UNCHANGED ret
    /\ UNCHANGED <<today, cache_file, tickers, lookup, cache_check, called_on,
                   calls_made, cache_failures>>

\* Save to cache (a failed write is only reported), then the end of the
\* function.
SaveCache(p) ==
    /\ pc[p] = "save"
    /\ \E write_ok \in BOOLEAN :
         IF write_ok
         THEN /\ cache_file' = [exists |-> TRUE, mtime |-> today,
                                rows |-> rs_df[p].rows]
              /\ UNCHANGED cache_failures
         ELSE /\ cache_failures' = [cache_failures EXCEPT ![today] = @ + 1]
              /\ UNCHANGED cache_file
    /\ ret' = [ret EXCEPT ![p] = AfterSave(rs_df[p])]
    /\ rs_df' = [rs_df EXCEPT ![p] = NotCalled]
    /\ pc' = [pc EXCEPT ![p] = "done"]
    /\ UNCHANGED <<today, tickers, lookup, cache_check, called_on, calls_made,
                   rankings>>

\* The caller looks its first ticker up in what the call returned.
LookupReturned(p) ==
    /\ pc[p] = "done"
    /\ lookup[p] = NotAsked
    /\ lookup' = [lookup EXCEPT ![p] = calculate_rs_momentum(tickers[p][1], ret[p])]
    /\ UNCHANGED <<today, cache_file, pc, tickers, rs_df, ret, cache_check,
                   called_on, calls_made, rankings, cache_failures>>

\* The caller is finished with the snapshot.
Finish(p) ==
    /\ pc[p] = "done"
    /\ lookup[p] # NotAsked
    /\ pc' = [pc EXCEPT ![p] = "idle"]
    /\ UNCHANGED <<today, cache_file, tickers, rs_df, ret, lookup, cache_check,
                   called_on, calls_made, rankings, cache_failures>>

\* Midnight.
NextDay ==
    /\ today < MaxDay
    /\ today' = today + 1
    /\ UNCHANGED <<cache_file, pc, tickers, rs_df, ret, lookup, cache_check,
                   called_on, calls_made, rankings, cache_failures>>

(***************************************************************************)
(* Component evaluators (core/canslim/*.py)                                *)
(*                                                                         *)
(* A statement frame has its period columns in file order and one row of   *)
(* cells per label; a price frame has its columns and its bars. An         *)
(* Optional[float] is a rational or Missing. An evaluator's outcome is     *)
(* the record [raised, score, metric, roe].                                *)
(***************************************************************************)
Missing == <<>>

C_GROWTH_TARGET == Rat(25, 100)
C_GROWTH_WEIGHT == Rat(60, 100)
C_CONSISTENCY_WEIGHT == Rat(20, 100)
C_ACCELERATION_WEIGHT == Rat(20, 100)
A_GROWTH_TARGET == Rat(25, 100)
A_ROE_TARGET == Rat(17, 100)
A_MIN_YEARS_GROWTH == 3
A_GROWTH_WEIGHT == Rat(50, 100)
A_CONSISTENCY_WEIGHT == Rat(30, 100)
A_ROE_WEIGHT == Rat(20, 100)
A_IPO_DATA_DISCOUNT == Rat(80, 100)

MetricNone == [kind |-> "None", value |-> RZero]
MetricFloat(v) == [kind |-> "float", value |-> v]
MetricDict(v) == [kind |-> "dict", value |-> v]
MetricAbsent == [kind |-> "absent", value |-> RZero]
Optional(v) == IF v = Missing THEN MetricNone ELSE MetricFloat(v)

Outcome(score, metric, roe) ==
    [raised |-> FALSE, score |-> score, metric |-> metric, roe |-> roe]
RaisedOutcome ==
    [raised |-> TRUE, score |-> RZero, metric |-> MetricAbsent, roe |-> MetricAbsent]
NotEvaluated ==
    [raised |-> FALSE, score |-> RZero, metric |-> MetricAbsent, roe |-> MetricAbsent]

\* "arg or settings.DEFAULT": an omitted or zero argument takes the default.
PyOr(arg, default) == IF arg = Missing \/ arg[1] = 0 THEN default ELSE arg

\* pd.DataFrame.empty: no rows or no columns.
FrameEmpty(frame) == Len(frame.rows) = 0 \/ Len(frame.dates) = 0

\* df.loc[label].sort_index(): the cells of a row, oldest period first.
SortIndex(frame, label) ==
    LET n == Len(frame.dates)
        r == CHOOSE k \in 1..Len(frame.rows) :
                 /\ frame.rows[k].label = label
                 /\ \A j \in 1..(k - 1) : frame.rows[j].label # label
    IN  [k \in 1..n |->
            frame.rows[r].cells[
                CHOOSE i \in 1..n :
                    Cardinality({j \in 1..n : frame.dates[j] < frame.dates[i]}) = k - 1]]

EpsLabels == {"Basic EPS", "Diluted EPS"}
NetIncomeLabels == {"Net Income"}
RevenueLabels == {"Total Revenue", "Operating Revenue"}
EquityLabels == {"Stockholders Equity", "Total Equity", "Common Stock Equity"}

\* The first row label in a set of matching labels, or None.
FirstLabelIn(frame, labels) ==
    LET hits == SelectSeq(frame.rows, LAMBDA r : r.label \in labels)
    IN  IF hits = <<>> THEN None ELSE hits[1].label

\* _find_earnings_row: an EPS row first, a Net Income row otherwise.
find_earnings_row(df) ==
    IF FirstLabelIn(df, EpsLabels) # None THEN FirstLabelIn(df, EpsLabels)
    ELSE FirstLabelIn(df, NetIncomeLabels)

\* _safe_growth on numeric cells.
safe_growth(current, previous) ==
    IF previous = 0 THEN Missing ELSE Rat(current - previous, Abs(previous))

\* np.clip(growth / target, 0, 2) / 2
GrowthScore(growth, target) ==
    RDiv(RClip(RDiv(growth, target), RZero, RInt(2)), RInt(2))

\* _get_quarterly_yoy_growths: most recent first, each against 4 quarters back.
get_quarterly_yoy_growths(earnings) ==
    LET n == Len(earnings)
    IN  [k \in 1..(IF n > 4 THEN n - 4 ELSE 0) |->
            safe_growth(earnings[n - k + 1], earnings[n - k - 3])]

\* _get_annual_growths: most recent first, each against the year before.
get_annual_growths(earnings) ==
    LET n == Len(earnings)
    IN  [k \in 1..(IF n > 1 THEN n - 1 ELSE 0) |->
            safe_growth(earnings[n - k + 1], earnings[n - k])]

Head_(q, k) == SubSeq(q, 1, IF Len(q) < k THEN Len(q) ELSE k)
Valid(growths) == SelectSeq(growths, LAMBDA g : g # Missing)

\* share of the valid growths at or above the target, 0.0 without any
ConsistencyScore(growths, target) ==
    LET valid == Valid(growths)
        above == Cardinality({i \in 1..Len(valid) : RLe(target, valid[i])})
    IN  IF valid = <<>> THEN RZero ELSE Rat(above, Len(valid))

\* _check_acceleration
check_acceleration(growths) ==
    LET valid == Valid(growths)
        total_pairs == Len(valid) - 1
        accelerating_pairs ==
            Cardinality({i \in 1..total_pairs : RLt(valid[i + 1], valid[i])})
    IN  IF Len(valid) < 2 THEN Rat(1, 2)
        ELSE Rat(accelerating_pairs, total_pairs)

\* evaluate_c(quarterly_income, c_growth_target)
evaluate_c(quarterly_income, c_growth_target_arg) ==
    LET c_growth_target == PyOr(c_growth_target_arg, C_GROWTH_TARGET)
        default == Outcome(RZero, MetricNone, MetricAbsent)
    IN  IF FrameEmpty(quarterly_income) THEN default
        ELSE IF find_earnings_row(quarterly_income) = None THEN default
        ELSE
        LET earnings == SortIndex(quarterly_income, find_earnings_row(quarterly_income))
            n == Len(earnings)
        IN  IF n < 5
            THEN IF n >= 2
                 THEN LET g == safe_growth(earnings[n], earnings[n - 1])
                      IN  IF g = Missing THEN default
                          ELSE Outcome(GrowthScore(g, c_growth_target),
                                       MetricFloat(g), MetricAbsent)
                 ELSE default
            ELSE
            LET yoy_growths == get_quarterly_yoy_growths(earnings)
            IN  IF yoy_growths = <<>> \/ yoy_growths[1] = Missing THEN default
                ELSE
                LET cg == yoy_growths[1]
                    score ==
                        RAdd(RAdd(
                            RMul(C_GROWTH_WEIGHT, GrowthScore(cg, c_growth_target)),
                            RMul(C_CONSISTENCY_WEIGHT,
                                 ConsistencyScore(Head_(yoy_growths, 3), c_growth_target))),
                            RMul(C_ACCELERATION_WEIGHT,
                                 check_acceleration(Head_(yoy_growths, 4))))
                IN  Outcome(RClip(score, RZero, ROne), MetricFloat(cg), MetricAbsent)

\* _calculate_roe: latest Net Income over latest shareholders' equity.
calculate_roe(annual_income, balance_sheet) ==
    IF FirstLabelIn(annual_income, NetIncomeLabels) = None THEN Missing
    ELSE IF FirstLabelIn(balance_sheet, EquityLabels) = None THEN Missing
    ELSE
    LET ni == SortIndex(annual_income, FirstLabelIn(annual_income, NetIncomeLabels))
        eq == SortIndex(balance_sheet, FirstLabelIn(balance_sheet, EquityLabels))
    IN  IF eq[Len(eq)] <= 0 THEN Missing ELSE Rat(ni[Len(ni)], eq[Len(eq)])

\* is_ipo = years_available < settings.A_MIN_YEARS_GROWTH
a_is_ipo(years_available) == years_available < A_MIN_YEARS_GROWTH

\* evaluate_a(annual_income, a_growth_target, balance_sheet)
evaluate_a(annual_income, a_growth_target_arg, balance_sheet) ==
    LET a_growth_target == PyOr(a_growth_target_arg, A_GROWTH_TARGET)
        default == Outcome(RZero, MetricNone, MetricNone)
    IN  IF FrameEmpty(annual_income) THEN default
        ELSE IF find_earnings_row(annual_income) = None THEN default
        ELSE
        LET earnings == SortIndex(annual_income, find_earnings_row(annual_income))
        IN  IF Len(earnings) < 2 THEN default
            ELSE
            LET yoy_growths == get_annual_growths(earnings)
            IN  IF yoy_growths = <<>> \/ yoy_growths[1] = Missing THEN default
                ELSE
                LET ag == yoy_growths[1]
                    growth_score == GrowthScore(ag, a_growth_target)
                    roe == IF balance_sheet.kind # "None" /\ ~FrameEmpty(balance_sheet)
                           THEN calculate_roe(annual_income, balance_sheet)
                           ELSE Missing
                    roe_score == IF roe = Missing THEN RZero
                                 ELSE GrowthScore(roe, A_ROE_TARGET)
                    score ==
                        IF a_is_ipo(Len(yoy_growths))
                        THEN RMul(RAdd(RAdd(
                                 RMul(Rat(60, 100), growth_score),
                                 RMul(Rat(15, 100),
                                      ConsistencyScore(yoy_growths, a_growth_target))),
                                 RMul(Rat(25, 100), roe_score)),
                                 A_IPO_DATA_DISCOUNT)
                        ELSE RAdd(RAdd(
                                 RMul(A_GROWTH_WEIGHT, growth_score),
                                 RMul(A_CONSISTENCY_WEIGHT,
                                      ConsistencyScore(
                                          Head_(yoy_growths, A_MIN_YEARS_GROWTH),
                                          a_growth_target))),
                                 RMul(A_ROE_WEIGHT, roe_score))
                IN  Outcome(RClip(score, RZero, ROne), MetricFloat(ag), Optional(roe))

N_REVENUE_GROWTH_WEIGHT == Rat(50, 100)
N_PROXIMITY_TO_HIGH_WEIGHT == Rat(50, 100)
N_REVENUE_GROWTH_TARGET == Rat(25, 100)

\* the proximity sub-score of evaluate_n
ProximityScore(proximity_to_high) ==
    IF proximity_to_high = Missing \/ ~RLt(RZero, proximity_to_high) THEN RZero
    ELSE IF RLe(Rat(98, 100), proximity_to_high) THEN ROne
    ELSE IF RLe(Rat(90, 100), proximity_to_high)
         THEN RDiv(RSub(proximity_to_high, Rat(90, 100)),
                   RSub(Rat(98, 100), Rat(90, 100)))
    ELSE IF RLe(Rat(75, 100), proximity_to_high)
         THEN RMul(RDiv(RSub(proximity_to_high, Rat(75, 100)),
                        RSub(Rat(90, 100), Rat(75, 100))),
                   Rat(3, 10))
    ELSE RZero

\* evaluate_n(quarterly_income, proximity_to_high, n_revenue_weight,
\*            n_proximity_weight)
evaluate_n(quarterly_income, proximity_to_high, n_revenue_weight_arg, n_proximity_weight_arg) ==
    LET n_revenue_weight == PyOr(n_revenue_weight_arg, N_REVENUE_GROWTH_WEIGHT)
        n_proximity_weight == PyOr(n_proximity_weight_arg, N_PROXIMITY_TO_HIGH_WEIGHT)
        revenue_row == IF FrameEmpty(quarterly_income) THEN None
                       ELSE FirstLabelIn(quarterly_income, RevenueLabels)
        revs == IF revenue_row = None THEN <<>>
                ELSE SortIndex(quarterly_income, revenue_row)
        revenue_growth ==
            IF Len(revs) >= 4
            THEN safe_growth(revs[Len(revs)], revs[Len(revs) - 3])
            ELSE Missing
        revenue_score == IF revenue_growth = Missing THEN RZero
                         ELSE GrowthScore(revenue_growth, N_REVENUE_GROWTH_TARGET)
        score == RAdd(RMul(n_revenue_weight, revenue_score),
                      RMul(n_proximity_weight, ProximityScore(proximity_to_high)))
    IN  Outcome(RClip(score, RZero, ROne), Optional(revenue_growth), MetricAbsent)

S_VOLUME_SURGE_THRESHOLD == Rat(15, 10)
S_BREAKOUT_PROXIMITY == Rat(98, 100)
S_POWER_GAP_LOOKBACK == 10
S_FLOAT_WEIGHT == Rat(25, 100)
S_UP_DOWN_VOL_WEIGHT == Rat(25, 100)
S_SURGE_BREAKOUT_WEIGHT == Rat(30, 100)
S_POWER_GAP_WEIGHT == Rat(20, 100)
UP_DOWN_LOOKBACK == 50
POWER_GAP_BASELINE == 50

OHLCV == {"Open", "High", "Low", "Close", "Volume"}

RECURSIVE SumOver(_, _)
SumOver(S, f) ==
    IF S = {} THEN 0
    ELSE LET x == CHOOSE y \in S : TRUE
         IN  f[x] + SumOver(S \ {x}, f)

\* Series.mean() of the cells at the positions S
Mean(S, f) == Rat(SumOver(S, f), Cardinality(S))

\* _score_float_supply
score_float_supply(shares_outstanding) ==
    IF shares_outstanding = Missing \/ RLe(shares_outstanding, RZero) THEN Rat(1, 2)
    ELSE LET shares_millions == RDiv(shares_outstanding, RInt(1000000))
         IN  IF RLt(shares_millions, RInt(50)) THEN ROne
             ELSE IF RLt(shares_millions, RInt(200)) THEN Rat(85, 100)
             ELSE IF RLt(shares_millions, RInt(500)) THEN Rat(65, 100)
             ELSE IF RLt(shares_millions, RInt(1000)) THEN Rat(4, 10)
             ELSE Rat(2, 10)

\* recent['Close'] and recent['Volume'] on a frame without these columns
\* raise KeyError.
UpDownRaises(price_history) ==
    ~({"Close", "Volume"} \subseteq price_history.columns)

\* _calculate_up_down_volume_ratio on a frame that has its columns
calculate_up_down_volume_ratio(price_history) ==
    LET bars == price_history.bars
        n == Len(bars)
        lookback == IF n < UP_DOWN_LOOKBACK THEN n ELSE UP_DOWN_LOOKBACK
        first == n - lookback + 1
        volumes == [i \in 1..n |-> bars[i].Volume]
        up_days == {i \in (first + 1)..n : bars[i].Close > bars[i - 1].Close}
        down_days == {i \in (first + 1)..n : bars[i].Close < bars[i - 1].Close}
        up_volume == IF up_days # {} THEN Mean(up_days, volumes) ELSE RZero
        down_volume == IF down_days # {} THEN Mean(down_days, volumes) ELSE ROne
    IN  IF down_volume = RZero THEN RInt(2)
        ELSE RMin(RDiv(up_volume, down_volume), RInt(3))

\* _detect_volume_surge: <<is_surge, volume_ratio>>
detect_volume_surge(recent_volume, avg_volume, surge_threshold) ==
    IF avg_volume = RZero THEN <<FALSE, RZero>>
    ELSE <<RLe(surge_threshold, RDiv(recent_volume, avg_volume)),
           RDiv(recent_volume, avg_volume)>>

\* _detect_breakout: <<is_breakout, proximity>>
detect_breakout(current_price, high_52week, proximity_threshold) ==
    IF high_52week = RZero THEN <<FALSE, RZero>>
    ELSE <<RLe(proximity_threshold, RDiv(current_price, high_52week)),
           RDiv(current_price, high_52week)>>

\* _detect_power_earnings_gap: a gap up of 2% on 1.5 times the baseline volume
detect_power_earnings_gap(price_history, lookback_days) ==
    LET bars == price_history.bars
        n == Len(bars)
    IN  IF n < lookback_days + POWER_GAP_BASELINE THEN FALSE
        ELSE
        LET volumes == [i \in 1..n |-> bars[i].Volume]
            avg_volume == Mean((n - lookback_days - POWER_GAP_BASELINE + 1)
                                   ..(n - lookback_days), volumes)
        IN  IF avg_volume = RZero THEN FALSE
            ELSE \E i \in (n - lookback_days + 1)..n :
                    /\ RLe(Rat(2, 100),
                           Rat(bars[i].Low - bars[i - 1].High, bars[i - 1].Close))
                    /\ RLe(Rat(15, 10), RDiv(RInt(bars[i].Volume), avg_volume))

\* evaluate_s(price_history, avg_volume_50, current_price, high_52week,
\*            shares_outstanding) with the thresholds of the settings
evaluate_s(price_history, avg_volume_50, current_price, high_52week, shares_outstanding) ==
    LET bars == price_history.bars
    IN  IF Len(bars) > 0 /\ "Volume" \notin price_history.columns THEN RaisedOutcome
        ELSE IF UpDownRaises(price_history) THEN RaisedOutcome
        ELSE
        LET recent_volume == IF Len(bars) > 0 THEN RInt(bars[Len(bars)].Volume)
                             ELSE RZero
            float_score == score_float_supply(shares_outstanding)
            up_down_ratio == calculate_up_down_volume_ratio(price_history)
            ud_score ==
                IF RLe(Rat(15, 10), up_down_ratio) THEN ROne
                ELSE IF RLe(ROne, up_down_ratio)
                     THEN RDiv(RSub(up_down_ratio, ROne), Rat(1, 2))
                ELSE RMul(RDiv(RMax(RSub(up_down_ratio, Rat(1, 2)), RZero), Rat(1, 2)),
                          Rat(3, 10))
            surge == detect_volume_surge(recent_volume, avg_volume_50,
                                         S_VOLUME_SURGE_THRESHOLD)
            breakout == detect_breakout(current_price, high_52week,
                                        S_BREAKOUT_PROXIMITY)
            volume_score == IF RLt(RZero, avg_volume_50)
                            THEN RMin(RDiv(surge[2], S_VOLUME_SURGE_THRESHOLD), ROne)
                            ELSE RZero
            breakout_score ==
                IF breakout[1] THEN ROne
                ELSE RMax(RDiv(RSub(breakout[2], Rat(85, 100)),
                               RSub(S_BREAKOUT_PROXIMITY, Rat(85, 100))), RZero)
            surge_breakout_score == RAdd(RMul(Rat(1, 2), volume_score),
                                         RMul(Rat(1, 2), breakout_score))
            power_gap_score ==
                IF detect_power_earnings_gap(price_history, S_POWER_GAP_LOOKBACK)
                THEN ROne ELSE RZero
            score == RAdd(RAdd(RAdd(
                         RMul(S_FLOAT_WEIGHT, float_score),
                         RMul(S_UP_DOWN_VOL_WEIGHT, ud_score)),
                         RMul(S_SURGE_BREAKOUT_WEIGHT, surge_breakout_score)),
                         RMul(S_POWER_GAP_WEIGHT, power_gap_score))
        IN  Outcome(RClip(score, RZero, ROne), MetricDict(up_down_ratio), MetricAbsent)

\* evaluate_l(symbol, rs_scores_df)
evaluate_l(symbol, rs_scores_df_arg) ==
    LET rs == calculate_rs_momentum(symbol, rs_scores_df_arg)
    IN  IF rs.raised THEN RaisedOutcome
        ELSE LET normalized == RDiv(rs.value, RInt(100))
             IN  Outcome(RClip(RMul(normalized, normalized), RZero, ROne),
                         MetricFloat(rs.value), MetricAbsent)

I_LEVEL_WEIGHT == Rat(60, 100)
I_TREND_WEIGHT == Rat(40, 100)
I_NO_DATA_SCORE == Rat(1, 10)

\* An ownership curve that is flat at 1.0 from 30% to 60%.
score_ownership_level_FlatIdeal(held_percent) ==
    IF RLt(held_percent, Rat(10, 100))
    THEN RMul(RDiv(held_percent, Rat(10, 100)), Rat(3, 10))
    ELSE IF RLt(held_percent, Rat(30, 100))
    THEN RAdd(Rat(3, 10),
              RMul(RDiv(RSub(held_percent, Rat(10, 100)), Rat(20, 100)), Rat(4, 10)))
    ELSE IF RLt(held_percent, Rat(60, 100))
    THEN ROne
    ELSE IF RLt(held_percent, Rat(80, 100))
    THEN RSub(ROne,
              RMul(RDiv(RSub(held_percent, Rat(60, 100)), Rat(20, 100)), Rat(15, 100)))
    ELSE IF RLt(held_percent, Rat(90, 100))
    THEN RSub(Rat(85, 100),
              RMul(RDiv(RSub(held_percent, Rat(80, 100)), Rat(10, 100)), Rat(25, 100)))
    ELSE RMax(RSub(Rat(6, 10),
                   RMul(RDiv(RSub(held_percent, Rat(90, 100)), Rat(10, 100)),
                        Rat(3, 10))),
              Rat(3, 10))

\* _score_ownership_level
score_ownership_level(held_percent) ==
    IF RLt(held_percent, Rat(10, 100))
    THEN RMul(RDiv(held_percent, Rat(10, 100)), Rat(3, 10))
    ELSE IF RLt(held_percent, Rat(30, 100))
    THEN RAdd(Rat(3, 10),
              RMul(RDiv(RSub(held_percent, Rat(10, 100)), Rat(20, 100)), Rat(4, 10)))
    ELSE IF RLt(held_percent, Rat(60, 100))
    THEN RAdd(Rat(7, 10),
              RMul(RDiv(RSub(held_percent, Rat(30, 100)), Rat(30, 100)), Rat(3, 10)))
    ELSE IF RLt(held_percent, Rat(80, 100))
    THEN RSub(ROne,
              RMul(RDiv(RSub(held_percent, Rat(60, 100)), Rat(20, 100)), Rat(15, 100)))
    ELSE IF RLt(held_percent, Rat(90, 100))
    THEN RSub(Rat(85, 100),
              RMul(RDiv(RSub(held_percent, Rat(80, 100)), Rat(10, 100)), Rat(25, 100)))
    ELSE RMax(RSub(Rat(6, 10),
                   RMul(RDiv(RSub(held_percent, Rat(90, 100)), Rat(10, 100)),
                        Rat(3, 10))),
              Rat(3, 10))

\* _score_ownership_trend
score_ownership_trend(current_holders, previous_holders) ==
    IF current_holders = Missing \/ previous_holders = Missing THEN Rat(1, 2)
    ELSE IF RLe(previous_holders, RZero) THEN Rat(1, 2)
    ELSE
    LET change_pct == RDiv(RSub(current_holders, previous_holders), previous_holders)
    IN  IF RLe(Rat(10, 100), change_pct) THEN ROne
        ELSE IF RLe(Rat(3, 100), change_pct)
             THEN RAdd(Rat(7, 10),
                       RMul(RDiv(RSub(change_pct, Rat(3, 100)), Rat(7, 100)), Rat(3, 10)))
        ELSE IF RLe(RZero, change_pct)
             THEN RAdd(Rat(1, 2), RMul(RDiv(change_pct, Rat(3, 100)), Rat(2, 10)))
        ELSE IF RLe(Rat(-5, 100), change_pct)
             THEN RAdd(Rat(1, 2), RMul(RDiv(change_pct, Rat(5, 100)), Rat(2, 10)))
        ELSE RMax(Rat(3, 10), Rat(1, 10))

\* evaluate_i(held_percent_institutions, num_institutional_holders,
\*            prev_num_institutional_holders): a bare score, no raw metric
evaluate_i(held_percent_institutions, num_institutional_holders, prev_num_institutional_holders) ==
    IF held_percent_institutions = Missing
    THEN Outcome(I_NO_DATA_SCORE, MetricAbsent, MetricAbsent)
    ELSE Outcome(
             RClip(RAdd(RMul(I_LEVEL_WEIGHT,
                             score_ownership_level(held_percent_institutions)),
                        RMul(I_TREND_WEIGHT,
                             score_ownership_trend(num_institutional_holders,
                                                   prev_num_institutional_holders))),
                   RZero, ROne),
             MetricAbsent, MetricAbsent)

(***************************************************************************)
(* The evaluators applied to statement frames, price frames, RS tables     *)
(* and ownership figures, the empty and missing ones included.             *)
(***************************************************************************)
MaxPeriods == 5
MaxBars == 3

CellValues == {0, 4, 6}
LabelLists == {<<>>, <<"Total Revenue">>, <<"Diluted EPS">>, <<"Net Income">>,
               <<"Net Income", "Diluted EPS">>, <<"Diluted EPS", "Total Revenue">>}

ReverseSeq(q) == [i \in 1..Len(q) |-> q[Len(q) - i + 1]]

\* A statement frame: newest period first as the provider sends it, or
\* oldest first; the second row carries the cells in the opposite order.
StatementFrame(labels, cells, newest_first) ==
    [kind |-> "DataFrame",
     dates |-> [i \in 1..Len(cells) |->
                   IF newest_first THEN Len(cells) - i + 1 ELSE i],
     rows |-> [k \in 1..Len(labels) |->
                  [label |-> labels[k],
                   cells |-> IF k = 1 THEN cells ELSE ReverseSeq(cells)]]]

StatementFrames ==
    UNION {{StatementFrame(l, c, o) :
                l \in LabelLists, c \in [1..n -> CellValues], o \in BOOLEAN} :
           n \in 0..MaxPeriods}

NoneFrame == [kind |-> "None", dates |-> <<>>, rows |-> <<>>]
BalanceSheets ==
    {NoneFrame, StatementFrame(<<>>, <<>>, TRUE)}
        \cup {StatementFrame(<<"Stockholders Equity">>, <<e>>, TRUE) : e \in {0, 20}}

Proximities == {Missing, RZero, Rat(80, 100), Rat(95, 100), ROne}

Bar(close, volume) ==
    [Open |-> close, High |-> close + 1, Low |-> close - 1, Close |-> close,
     Volume |-> volume]
BarValues == {Bar(c, v) : c \in {10, 11}, v \in {0, 100, 200}}
PriceFrames ==
    {[columns |-> {}, bars |-> <<>>]}
        \cup UNION {{[columns |-> OHLCV, bars |-> b] : b \in [1..n -> BarValues]} :
                    n \in 0..MaxBars}
PriceLevels == {<<RZero, RZero>>, <<RInt(10), RInt(11)>>, <<RInt(11), RInt(11)>>}
ShareCounts == {Missing, RInt(40000000)}

RsTables ==
    {PyNone, EmptyDataFrame}
        \cup {DataFrame(<<[Ticker |-> TrackedA, Weighted_Perf |-> ROne,
                           RS_Score |-> RInt(s)]>>) : s \in {1, 50, 99}}

Ownerships == {Missing, RZero, Rat(5, 100), Rat(20, 100), Rat(45, 100),
               Rat(70, 100), Rat(85, 100), Rat(95, 100), ROne}
HolderCounts == {Missing, RZero, RInt(100), RInt(105), RInt(120)}

EvalInit ==
    /\ evaluator = None
    /\ ev_args = <<>>
    /\ ev_out = NotEvaluated

EvalIdle == EvalInit

EvaluateC ==
    /\ evaluator = None
    /\ \E quarterly_income \in StatementFrames :
         /\ ev_args' = [frame |-> quarterly_income]
         /\ ev_out' = evaluate_c(quarterly_income, Missing)
    /\ evaluator' = "evaluate_c"

EvaluateA ==
    /\ evaluator = None
    /\ \E annual_income \in StatementFrames, balance_sheet \in BalanceSheets :
         /\ ev_args' = [frame |-> annual_income, balance_sheet |-> balance_sheet]
         /\ ev_out' = evaluate_a(annual_income, Missing, balance_sheet)
    /\ evaluator' = "evaluate_a"

\* The (n_revenue_weight, n_proximity_weight) arguments of evaluate_n:
\* omitted (None) as evaluate_canslim's callers leave them, or supplied.
NoWeights == <<Missing, Missing>>
WeightOverrides ==
    {NoWeights, <<RZero, ROne>>, <<ROne, RZero>>, <<Rat(3, 10), Rat(7, 10)>>,
     <<RZero, RZero>>, <<Missing, RZero>>}

\* The frames the supplied weights are tried on: four quarters of revenue.
OverrideFrames ==
    {StatementFrame(<<"Total Revenue">>, c, FALSE) : c \in [1..4 -> CellValues]}

EvaluateN ==
    /\ evaluator = None
    /\ \E quarterly_income \in StatementFrames, proximity_to_high \in Proximities,
          weights \in WeightOverrides :
         /\ weights # NoWeights => quarterly_income \in OverrideFrames
         /\ ev_args' = [frame |-> quarterly_income, proximity |-> proximity_to_high,
                        n_revenue_weight |-> weights[1],
                        n_proximity_weight |-> weights[2]]
         /\ ev_out' = evaluate_n(quarterly_income, proximity_to_high, weights[1], weights[2])
    /\ evaluator' = "evaluate_n"

EvaluateS ==
    /\ evaluator = None
    /\ \E price_history \in PriceFrames, avg_volume_50 \in {RZero, RInt(100)},
          level \in PriceLevels, shares_outstanding \in ShareCounts :
         /\ ev_args' = [price_history |-> price_history,
                        avg_volume_50 |-> avg_volume_50, level |-> level,
                        shares_outstanding |-> shares_outstanding]
         /\ ev_out' = evaluate_s(price_history, avg_volume_50, level[1], level[2],
                                 shares_outstanding)
    /\ evaluator' = "evaluate_s"

EvaluateL ==
    /\ evaluator = None
    /\ \E symbol \in {TrackedA, Untracked}, table \in RsTables :
         /\ ev_args' = [symbol |-> symbol, table |-> table]
         /\ ev_out' = evaluate_l(symbol, table)
    /\ evaluator' = "evaluate_l"

EvaluateI ==
    /\ evaluator = None
    /\ \E held \in Ownerships, holders \in HolderCounts, prev \in HolderCounts :
         /\ ev_args' = [held |-> held, holders |-> holders, prev |-> prev]
         /\ ev_out' = evaluate_i(held, holders, prev)
    /\ evaluator' = "evaluate_i"

\* _score_ownership_level called for two ownership levels, the lower one
\* first: ev_out carries the lower one's score, and the higher one's as its
\* metric.
OwnershipPercents == {0, 5, 10, 20, 30, 45, 60, 70, 80, 85, 90, 95, 100, 110}

ScoreOwnershipLevel ==
    /\ evaluator = None
    /\ \E lower \in OwnershipPercents, higher \in OwnershipPercents :
         /\ lower < higher
         /\ ev_args' = [held |-> Rat(lower, 100), other |-> Rat(higher, 100)]
         /\ ev_out' = Outcome(score_ownership_level(Rat(lower, 100)),
                              MetricFloat(score_ownership_level(Rat(higher, 100))),
                              MetricAbsent)
    /\ evaluator' = "_score_ownership_level"

\* The caller has taken the outcome; the next evaluation can start.
NextEvaluation ==
    /\ evaluator # None
    /\ evaluator' = None
    /\ ev_args' = <<>>
    /\ ev_out' = NotEvaluated

(***************************************************************************)
(* Market regime: the distribution-day count (core/canslim/                *)
(* m_market_direction.py). A benchmark bar is [Close, Volume].             *)
(***************************************************************************)
M_DISTRIBUTION_LOOKBACK == 25
M_DISTRIBUTION_MIN_DECLINE == Rat(2, 1000)
M_MAX_DISTRIBUTION_DAYS == 5
M_MIN_BARS == 50

\* series.iloc[-(lookback + 1):], the lookback shrunk to len - 1 on a short
\* series.
RecentWindow(series, lookback) ==
    LET lb == IF Len(series) < lookback + 1 THEN Len(series) - 1 ELSE lookback
    IN  IF lb + 1 <= 0 THEN series
        ELSE SubSeq(series, Len(series) - lb, Len(series))

\* A distribution day whatever the volume.
IsDistributionDay_AnyVolume(close_prev, close, vol_yesterday, vol_today, min_decline) ==
    RLe(Rat(close - close_prev, close_prev), RSub(RZero, min_decline))

\* price_change <= -min_decline and vol_today > vol_yesterday
IsDistributionDay(close_prev, close, vol_yesterday, vol_today, min_decline) ==
    /\ RLe(Rat(close - close_prev, close_prev), RSub(RZero, min_decline))
    /\ vol_today > vol_yesterday

\* the loop "for i in range(1, len(recent_closes))" from bar i on
RECURSIVE CountFrom(_, _, _, _)
CountFrom(recent_closes, recent_volumes, i, min_decline) ==
    IF i > Len(recent_closes) THEN 0
    ELSE (IF IsDistributionDay(recent_closes[i - 1], recent_closes[i],
                               recent_volumes[i - 1], recent_volumes[i], min_decline)
          THEN 1 ELSE 0)
         + CountFrom(recent_closes, recent_volumes, i + 1, min_decline)

\* _count_distribution_days(closes, volumes, lookback, min_decline)
count_distribution_days(closes, volumes, lookback, min_decline) ==
    CountFrom(RecentWindow(closes, lookback), RecentWindow(volumes, lookback),
              2, min_decline)

\* The MarketTrend dataclass; the backtest returns the 4-tuple (score,
\* is_bullish, distribution_days, follow_through), which has no latest
\* close and no indicators. indicators is a set of <<name, value>> pairs.
MarketTrend(score, is_bullish, latest_close, indicators, dist_days, follow_through) ==
    [score |-> score, is_bullish |-> is_bullish, latest_close |-> latest_close,
     indicators |-> indicators, distribution_days |-> dist_days,
     follow_through |-> follow_through]

NoTrend == MarketTrend(<<>>, FALSE, <<>>, {}, 0, FALSE)

NoEwm ==
    [ema_21 |-> <<>>, ema_50 |-> <<>>, ema_200 |-> <<>>, ema_50_lookback |-> <<>>,
     ema_50_prior |-> <<>>]

\* dist_score = max(1.0 - dist_days / max_dist, 0.0)
DistScore(dist_days, max_dist) ==
    RMax(RSub(ROne, Rat(dist_days, max_dist)), RZero)

(***************************************************************************)
(* Benchmark histories: flat filler bars, then a run of equal daily moves, *)
(* then the bars after the run up to the latest bar; a history too short  *)
(* for its run keeps the most recent bars of the pattern.                  *)
(***************************************************************************)
MaxRun == 7
HistoryLengths == {2, 12, 26, 27, 50, 60}
BarsAfterRun == {0, 1, 19, 24, 25, 26}
BaseCloses == {1000, 1001}
DailyMoves == {-3, -2, -1, 2}
VolumeSteps == {-10, 0, 10}
AfterKinds == {"quiet", "up", "down"}

History(n, base, after, run, move, vol_step, after_kind) ==
    LET start == n - after - run
        run_close == base + move * run
        run_volume == 1000 + vol_step * run
    IN  [i \in 1..n |->
            IF i <= start THEN [Close |-> base, Volume |-> 1000]
            ELSE IF i <= start + run
                 THEN [Close |-> base + move * (i - start),
                       Volume |-> 1000 + vol_step * (i - start)]
            ELSE LET k == i - start - run
                 IN  CASE after_kind = "quiet" ->
                              [Close |-> run_close, Volume |-> run_volume]
                       [] after_kind = "up" ->
                              [Close |-> run_close + k, Volume |-> run_volume + 10 * k]
                       [] OTHER ->
                              [Close |-> run_close - 3 * k,
                               Volume |-> run_volume + 10 * k]]

Histories ==
    {History(n, base, after, run, move, vol_step, after_kind) :
        n \in HistoryLengths, base \in BaseCloses,
        after \in BarsAfterRun, run \in 0..MaxRun, move \in DailyMoves,
        vol_step \in VolumeSteps, after_kind \in AfterKinds}

ClosesOf(bars) == [i \in 1..Len(bars) |-> bars[i].Close]
VolumesOf(bars) == [i \in 1..Len(bars) |-> bars[i].Volume]

MarketInit ==
    /\ benchmark \in {h \in Histories : h # <<>>}
    /\ market_step = "loaded"
    /\ distribution_days = 0
    /\ dist_score = ROne
    /\ regime_caller = None
    /\ market_trend = NoTrend
    /\ ewm_calls = 0
    /\ ewm_out = NoEwm
    /\ market_asof = 0
    /\ at_date_out = NoTrend

MarketIdle ==
    /\ benchmark = <<>>
    /\ market_step = None
    /\ distribution_days = 0
    /\ dist_score = ROne
    /\ regime_caller = None
    /\ market_trend = NoTrend
    /\ ewm_calls = 0
    /\ ewm_out = NoEwm
    /\ market_asof = 0
    /\ at_date_out = NoTrend

\* _count_distribution_days called on a benchmark history of any length.
CountDistributionDays ==
    /\ market_step = "loaded"
    /\ distribution_days' =
           count_distribution_days(ClosesOf(benchmark), VolumesOf(benchmark),
                                   M_DISTRIBUTION_LOOKBACK, M_DISTRIBUTION_MIN_DECLINE)
    /\ market_step' = "counted"
    /\ UNCHANGED <<benchmark, dist_score, regime_caller, market_trend, ewm_calls,
                   ewm_out, market_asof, at_date_out>>

\* evaluate_m, "O'Neil Distribution Day Counting": reached with 50 bars or
\* more; the count and the score derived from it.
ScoreDistribution ==
    /\ market_step = "loaded"
    /\ Len(benchmark) >= M_MIN_BARS
    /\ LET dist_days ==
               count_distribution_days(ClosesOf(benchmark), VolumesOf(benchmark),
                                       M_DISTRIBUTION_LOOKBACK,
                                       M_DISTRIBUTION_MIN_DECLINE)
       IN  /\ distribution_days' = dist_days
           /\ dist_score' = DistScore(dist_days, M_MAX_DISTRIBUTION_DAYS)
    /\ market_step' = "scored"
    /\ UNCHANGED <<benchmark, regime_caller, market_trend, ewm_calls, ewm_out,
                   market_asof, at_date_out>>

(***************************************************************************)
(* Market regime: the follow-through detector and the composite regime    *)
(* score, in evaluate_m (core/canslim/m_market_direction.py) and in       *)
(* _evaluate_market_at_date (backtest.py).                                 *)
(***************************************************************************)
M_FOLLOW_THROUGH_MIN_PCT == Rat(15, 1000)
M_FOLLOW_THROUGH_MIN_DAY == 4
FOLLOW_THROUGH_LOOKBACK == 30
RALLY_RESET_DECLINE == Rat(0 - 1, 100)
M_PRICE_ABOVE_200EMA_WEIGHT == Rat(45, 100)
M_EMA_ALIGNMENT_WEIGHT == Rat(25, 100)
M_50EMA_RISING_WEIGHT == Rat(20, 100)
M_PRICE_ABOVE_21EMA_WEIGHT == Rat(10, 100)
M_BULLISH_THRESHOLD == Rat(6, 10)
M_50EMA_RISING_LOOKBACK == 20
M_DISTRIBUTION_WEIGHT == Rat(30, 100)
M_FOLLOW_THROUGH_WEIGHT == Rat(15, 100)
M_FALLBACK_SCORE == Rat(4, 10)

\* series.tail(n)
TailOf(series, n) ==
    IF Len(series) <= n THEN series
    ELSE SubSeq(series, Len(series) - n + 1, Len(series))

\* The detector's loop "for i in range(1, len(recent_closes))" from bar i
\* on, entered with the rally state the earlier bars left.
RECURSIVE FollowThroughFrom(_, _, _, _, _, _, _)
FollowThroughFrom(rc, rv, i, in_rally, rally_day_count, min_rally_pct, min_rally_day) ==
    IF i > Len(rc) THEN FALSE
    ELSE LET daily_change == Rat(rc[i] - rc[i - 1], rc[i - 1])
             up == RLt(RZero, daily_change)
             reset == ~up /\ RLt(daily_change, RALLY_RESET_DECLINE)
             count == IF up THEN (IF in_rally THEN rally_day_count + 1 ELSE 1)
                      ELSE IF reset THEN 0 ELSE rally_day_count
             rally == IF up THEN TRUE ELSE IF reset THEN FALSE ELSE in_rally
         IN  IF /\ up
                /\ count >= min_rally_day
                /\ RLe(min_rally_pct, daily_change)
                /\ rv[i] > rv[i - 1]
             THEN TRUE
             ELSE FollowThroughFrom(rc, rv, i + 1, rally, count,
                                    min_rally_pct, min_rally_day)

\* _detect_follow_through_day(closes, volumes, min_rally_pct, min_rally_day,
\* lookback); the backtest inlines the same loop behind "len(closes) >= 30".
detect_follow_through_day(closes, volumes, min_rally_pct, min_rally_day, lookback) ==
    IF Len(closes) < lookback THEN FALSE
    ELSE FollowThroughFrom(TailOf(closes, lookback), TailOf(volumes, lookback),
                           2, FALSE, 0, min_rally_pct, min_rally_day)

\* closes.ewm(span=21 / 50 / 200).mean() is pandas' exponentially weighted
\* average of the closes. Its latest values, and the older values of the
\* 50-EMA, are results of the library: they are taken from levels around the
\* latest close, every order among them and against the close included.
\* ema_50_lookback is ema_50.iloc[-20], the value the code reads: with
\* iloc[-1] the latest bar, it is the 50-EMA 19 bars before the latest bar.
\* ema_50_prior is ema_50.iloc[-21], the 50-EMA 20 bars before the latest.
\* The two older values lie on the same side of the latest 50-EMA in every
\* arrangement of the other levels; the 50-EMA crossing its latest level
\* between those two bars is taken with one arrangement of the others.
EwmResults(latest_close) ==
    {r \in [ema_21 : {RInt(latest_close - 1), RInt(latest_close + 1)},
            ema_50 : {RInt(latest_close - 2), RInt(latest_close + 2)},
            ema_200 : {RInt(latest_close - 3), RInt(latest_close + 3)},
            ema_50_lookback : {RInt(latest_close - 4), RInt(latest_close + 2)},
            ema_50_prior : {RInt(latest_close - 3), RInt(latest_close + 3)}] :
        \/ (r.ema_50_lookback = RInt(latest_close - 4))
               = (r.ema_50_prior = RInt(latest_close - 3))
        \/ /\ r.ema_21 = RInt(latest_close + 1)
           /\ r.ema_50 = RInt(latest_close + 2)
           /\ r.ema_200 = RInt(latest_close - 3)}

\* "EMA-based trend analysis": the weights of the conditions that hold.
TrendScore(latest_close, ema, n_bars) ==
    RAdd(RAdd(RAdd(
        IF RLt(ema.ema_200, latest_close) THEN M_PRICE_ABOVE_200EMA_WEIGHT ELSE RZero,
        IF RLt(ema.ema_50, ema.ema_21) /\ RLt(ema.ema_200, ema.ema_50)
        THEN M_EMA_ALIGNMENT_WEIGHT ELSE RZero),
        IF n_bars > M_50EMA_RISING_LOOKBACK /\ RLt(ema.ema_50_lookback, ema.ema_50)
        THEN M_50EMA_RISING_WEIGHT ELSE RZero),
        IF RLt(ema.ema_21, latest_close) THEN M_PRICE_ABOVE_21EMA_WEIGHT ELSE RZero)

\* A combination whose trend weight is the share left to neither the
\* distribution nor the follow-through component, taken twice.
CombinedScore_TrendTwice(dist_score_, ftd_score, trend_score) ==
    RClip(RAdd(RAdd(RMul(M_DISTRIBUTION_WEIGHT, dist_score_),
                    RMul(M_FOLLOW_THROUGH_WEIGHT, ftd_score)),
               RMul(RMul(RInt(2), RSub(RSub(ROne, M_DISTRIBUTION_WEIGHT),
                                       M_FOLLOW_THROUGH_WEIGHT)),
                    trend_score)),
          RZero, ROne)

\* "Combine all components" and np.clip(combined_score, 0, 1)
CombinedScore(dist_score_, ftd_score, trend_score) ==
    RClip(RAdd(RAdd(RMul(M_DISTRIBUTION_WEIGHT, dist_score_),
                    RMul(M_FOLLOW_THROUGH_WEIGHT, ftd_score)),
               RMul(RSub(RSub(ROne, M_DISTRIBUTION_WEIGHT), M_FOLLOW_THROUGH_WEIGHT),
                    trend_score)),
          RZero, ROne)

\* A fallback snapshot scored 0.5.
FallbackTrend_Neutral == MarketTrend(Rat(5, 10), FALSE, <<>>, {}, 0, FALSE)

\* MarketTrend(score=0.4, is_bullish=False, latest_close=None, indicators={})
\* and the backtest's "return 0.4, False, 0, False".
FallbackTrend == MarketTrend(M_FALLBACK_SCORE, FALSE, <<>>, {}, 0, FALSE)

\* The distribution count and the follow-through flag of a history of 50
\* bars or more, with its latest close.
MarketSignals(bars) ==
    LET closes == ClosesOf(bars)
        volumes == VolumesOf(bars)
    IN  [n_bars |-> Len(closes),
         latest_close |-> RInt(closes[Len(closes)]),
         dist_days |-> count_distribution_days(closes, volumes, M_DISTRIBUTION_LOOKBACK,
                                               M_DISTRIBUTION_MIN_DECLINE),
         has_follow_through |->
             detect_follow_through_day(closes, volumes, M_FOLLOW_THROUGH_MIN_PCT,
                                       M_FOLLOW_THROUGH_MIN_DAY,
                                       FOLLOW_THROUGH_LOOKBACK)]

\* The combined score of those signals and the EMA conditions.
RegimeScore(signals, ema) ==
    CombinedScore(DistScore(signals.dist_days, M_MAX_DISTRIBUTION_DAYS),
                  IF signals.has_follow_through THEN ROne ELSE RZero,
                  TrendScore(signals.latest_close, ema, signals.n_bars))

\* evaluate_m() on the downloaded benchmark data (an empty frame when the
\* download raised); signals is MarketSignals(data), ema the EMAs of data.
evaluate_m(data, signals, ema) ==
    IF data = <<>> \/ Len(data) < M_MIN_BARS THEN FallbackTrend
    ELSE LET combined_score == RegimeScore(signals, ema)
         IN  MarketTrend(combined_score, RLe(M_BULLISH_THRESHOLD, combined_score),
                         signals.latest_close,
                         {<<"ema_21", ema.ema_21>>, <<"ema_50", ema.ema_50>>,
                          <<"ema_200", ema.ema_200>>},
                         signals.dist_days, signals.has_follow_through)

\* A distribution-day count over a window one bar shorter.
BacktestDistCount_Lookback24(closes, volumes) ==
    LET lookback == IF M_DISTRIBUTION_LOOKBACK - 1 <= Len(closes) - 1
                    THEN M_DISTRIBUTION_LOOKBACK - 1 ELSE Len(closes) - 1
    IN  Cardinality({i \in (Len(closes) - lookback + 1)..Len(closes) :
            /\ RLe(Rat(closes[i] - closes[i - 1], closes[i - 1]),
                   RSub(RZero, M_DISTRIBUTION_MIN_DECLINE))
            /\ volumes[i] > volumes[i - 1]})

\* The distribution-day count _evaluate_market_at_date computes inline over
\* closes.iloc[-(lookback + 1):] with lookback = min(25, len(closes) - 1);
\* i is the position in closes of a bar after the window's first one.
BacktestDistCount(closes, volumes) ==
    LET lookback == IF M_DISTRIBUTION_LOOKBACK <= Len(closes) - 1
                    THEN M_DISTRIBUTION_LOOKBACK ELSE Len(closes) - 1
    IN  Cardinality({i \in (Len(closes) - lookback + 1)..Len(closes) :
            /\ RLe(Rat(closes[i] - closes[i - 1], closes[i - 1]),
                   RSub(RZero, M_DISTRIBUTION_MIN_DECLINE))
            /\ volumes[i] > volumes[i - 1]})

\* The inline follow-through loop "for i in range(1, len(rc))" from bar i on:
\* an up-day extends the rally and may confirm it (ftd = True; break), a
\* decline of more than 1% resets it, any other bar leaves it as it is.
RECURSIVE BacktestRallyLoop(_, _, _, _, _)
BacktestRallyLoop(rc, rv, i, in_rally, rally_count) ==
    IF i > Len(rc) THEN FALSE
    ELSE LET daily_chg == Rat(rc[i] - rc[i - 1], rc[i - 1])
         IN  IF RLt(RZero, daily_chg)
             THEN LET count == IF in_rally THEN rally_count + 1 ELSE 1
                  IN  IF /\ count >= M_FOLLOW_THROUGH_MIN_DAY
                         /\ RLe(M_FOLLOW_THROUGH_MIN_PCT, daily_chg)
                         /\ rv[i] > rv[i - 1]
                      THEN TRUE
                      ELSE BacktestRallyLoop(rc, rv, i + 1, TRUE, count)
             ELSE IF RLt(daily_chg, Rat(0 - 1, 100))
                  THEN BacktestRallyLoop(rc, rv, i + 1, FALSE, 0)
                  ELSE BacktestRallyLoop(rc, rv, i + 1, in_rally, rally_count)

\* "if len(closes) >= 30: rc = closes.tail(30) ..."
BacktestFollowThrough(closes, volumes) ==
    IF Len(closes) >= 30
    THEN BacktestRallyLoop(TailOf(closes, 30), TailOf(volumes, 30), 2, FALSE, 0)
    ELSE FALSE

\* The signals _evaluate_market_at_date computes inline on the sliced bars.
BacktestSignals(sliced) ==
    LET closes == ClosesOf(sliced)
        volumes == VolumesOf(sliced)
    IN  [n_bars |-> Len(closes),
         latest_close |-> RInt(closes[Len(closes)]),
         dist_days |-> BacktestDistCount(closes, volumes),
         has_follow_through |-> BacktestFollowThrough(closes, volumes)]

\* The "EMA trend" part of _evaluate_market_at_date.
BacktestTrendScore(latest_close, ema, n_bars) ==
    LET above_200 == IF RLt(ema.ema_200, latest_close)
                     THEN M_PRICE_ABOVE_200EMA_WEIGHT ELSE RZero
        aligned == IF RLt(ema.ema_50, ema.ema_21) /\ RLt(ema.ema_200, ema.ema_50)
                   THEN M_EMA_ALIGNMENT_WEIGHT ELSE RZero
        rising == IF n_bars > M_50EMA_RISING_LOOKBACK
                     /\ RLt(ema.ema_50_lookback, ema.ema_50)
                  THEN M_50EMA_RISING_WEIGHT ELSE RZero
        above_21 == IF RLt(ema.ema_21, latest_close)
                    THEN M_PRICE_ABOVE_21EMA_WEIGHT ELSE RZero
    IN  RAdd(RAdd(RAdd(above_200, aligned), rising), above_21)

\* _evaluate_market_at_date(spy_data, eval_date): sliced holds the bars dated
\* on or before eval_date; signals is BacktestSignals(sliced).
evaluate_market_at_date(sliced, signals, ema) ==
    IF Len(sliced) < M_MIN_BARS THEN FallbackTrend
    ELSE LET dist_score_ == RMax(RSub(ROne, Rat(signals.dist_days, M_MAX_DISTRIBUTION_DAYS)),
                                RZero)
             ftd_score == IF signals.has_follow_through THEN ROne ELSE RZero
             trend_score == BacktestTrendScore(signals.latest_close, ema, signals.n_bars)
             combined == CombinedScore(dist_score_, ftd_score, trend_score)
         IN  MarketTrend(combined, RLe(M_BULLISH_THRESHOLD, combined), <<>>, {},
                         signals.dist_days, signals.has_follow_through)

(***************************************************************************)
(* Benchmark histories with a rally: filler bars (flat, or rising a point  *)
(* a day), then a run of up-days gaining 5 points each but the last, which *)
(* gains last_gain on a volume vol_step above the day before, then the     *)
(* bars after the rally up to the latest bar: quiet, or falling 15 points  *)
(* a day on rising volume.                                                 *)
(***************************************************************************)
MaxRally == 5
RallyLengths == {0, 29, 30, 49, 50, 60}
BarsAfterRally == {0, 1, 25, 26, 27}
LastGains == {15, 16}
RallyVolumeSteps == {0 - 10, 0, 10}
BeforeKinds == {"flat", "rising"}
AfterRallyKinds == {"quiet", "down"}

RallyHistory(n, after, run, last_gain, vol_step, before_kind, after_kind) ==
    LET start == n - after - run
        top == IF run = 0 THEN 1000 ELSE 1000 + 5 * (run - 1) + last_gain
    IN  [i \in 1..n |->
            IF i <= start
            THEN [Close |-> IF before_kind = "flat" THEN 1000 ELSE 1000 - (start - i),
                  Volume |-> 1000]
            ELSE IF i < start + run
                 THEN [Close |-> 1000 + 5 * (i - start), Volume |-> 1000]
            ELSE IF i = start + run
                 THEN [Close |-> top, Volume |-> 1000 + vol_step]
            ELSE [Close |-> IF after_kind = "quiet" THEN top
                            ELSE top - 15 * (i - start - run),
                  Volume |-> IF after_kind = "quiet" THEN 1000
                             ELSE 1000 + 20 * (i - start - run)]]

\* A rally interrupted by one bar: flat bars at 990, two up-days of 5 points,
\* a bar that closes dip points lower (0: flat, 10: exactly 1% lower, 11:
\* more than 1% lower), an up-day of 5 points and an up-day of 20 points on a
\* volume vol_step above the day before.
InterruptedLengths == {30, 50}
Dips == {0, 5, 10, 11}
InterruptedVolumeSteps == {0, 10}

InterruptedRally(n, dip, vol_step) ==
    [i \in 1..n |->
        [Close |-> IF i <= n - 5 THEN 990
                   ELSE IF i = n - 4 THEN 995
                   ELSE IF i = n - 3 THEN 1000
                   ELSE IF i = n - 2 THEN 1000 - dip
                   ELSE IF i = n - 1 THEN 1005 - dip
                   ELSE 1025 - dip,
         Volume |-> IF i = n THEN 1000 + vol_step ELSE 1000]]

RallyHistories ==
    {RallyHistory(n, after, run, last_gain, vol_step, before_kind, after_kind) :
        n \in RallyLengths, after \in BarsAfterRally, run \in 0..MaxRally,
        last_gain \in LastGains, vol_step \in RallyVolumeSteps,
        before_kind \in BeforeKinds, after_kind \in AfterRallyKinds}
    \cup {InterruptedRally(n, dip, vol_step) :
              n \in InterruptedLengths, dip \in Dips, vol_step \in InterruptedVolumeSteps}

RegimeInit ==
    /\ benchmark \in RallyHistories
    /\ market_step = "loaded"
    /\ distribution_days = 0
    /\ dist_score = ROne
    /\ regime_caller = None
    /\ market_trend = NoTrend
    /\ ewm_calls = 0
    /\ ewm_out = NoEwm
    /\ market_asof = 0
    /\ at_date_out = NoTrend

\* _detect_follow_through_day called with its defaults on a history of any
\* length.
DetectFollowThroughDay ==
    /\ regime_caller = None
    /\ regime_caller' = "_detect_follow_through_day"
    /\ market_trend' =
           [NoTrend EXCEPT !.follow_through =
               detect_follow_through_day(ClosesOf(benchmark), VolumesOf(benchmark),
                                         M_FOLLOW_THROUGH_MIN_PCT,
                                         M_FOLLOW_THROUGH_MIN_DAY,
                                         FOLLOW_THROUGH_LOOKBACK)]
    /\ market_asof' = Len(benchmark)
    /\ UNCHANGED <<benchmark, market_step, distribution_days, dist_score, ewm_calls,
                   ewm_out, at_date_out>>

\* evaluate_m(): the download gave the benchmark history (or raised: an
\* empty frame); three EMAs are computed only past the 50-bar test.
EvaluateM ==
    /\ regime_caller = None
    /\ regime_caller' = "evaluate_m"
    /\ market_asof' = Len(benchmark)
    /\ IF benchmark = <<>> \/ Len(benchmark) < M_MIN_BARS
       THEN /\ market_trend' = evaluate_m(benchmark, <<>>, NoEwm)
            /\ ewm_calls' = 0
            /\ ewm_out' = NoEwm
       ELSE /\ LET signals == MarketSignals(benchmark)
               IN  \E ema \in EwmResults(benchmark[Len(benchmark)].Close) :
                     /\ market_trend' = evaluate_m(benchmark, signals, ema)
                     /\ ewm_out' = ema
            /\ ewm_calls' = 3
    /\ UNCHANGED <<benchmark, market_step, distribution_days, dist_score, at_date_out>>

\* _evaluate_market_at_date(spy_data, eval_date): the evaluation date is the
\* latest bar's or the one before.
EvaluateMarketAtDate ==
    /\ regime_caller = None
    /\ regime_caller' = "_evaluate_market_at_date"
    /\ \E asof \in {Len(benchmark) - 1, Len(benchmark)} :
         /\ asof >= 0
         /\ market_asof' = asof
         /\ LET sliced == SubSeq(benchmark, 1, asof)
            IN  IF Len(sliced) < M_MIN_BARS
                THEN /\ market_trend' = evaluate_market_at_date(sliced, <<>>, NoEwm)
                     /\ ewm_calls' = 0
                     /\ ewm_out' = NoEwm
                ELSE /\ LET signals == BacktestSignals(sliced)
                        IN  \E ema \in EwmResults(sliced[Len(sliced)].Close) :
                              /\ market_trend' =
                                     evaluate_market_at_date(sliced, signals, ema)
                              /\ ewm_out' = ema
                     /\ ewm_calls' = 3
    /\ UNCHANGED <<benchmark, market_step, distribution_days, dist_score, at_date_out>>

\* The benchmark frame evaluate_m has scored, handed to
\* _evaluate_market_at_date with the date of its latest bar: the slice is the
\* whole frame, and the ewm calls on the same closes give what they gave
\* evaluate_m.
EvaluateMarketAtDateSameBars ==
    /\ regime_caller = "evaluate_m"
    /\ at_date_out = NoTrend
    /\ LET sliced == SubSeq(benchmark, 1, Len(benchmark))
       IN  IF Len(sliced) < M_MIN_BARS
           THEN /\ at_date_out' = evaluate_market_at_date(sliced, <<>>, NoEwm)
                /\ ewm_calls' = ewm_calls
           ELSE /\ at_date_out' =
                       evaluate_market_at_date(sliced, BacktestSignals(sliced), ewm_out)
                /\ ewm_calls' = ewm_calls + 3
    /\ UNCHANGED <<benchmark, market_step, distribution_days, dist_score, regime_caller,
                   market_trend, ewm_out, market_asof>>

(***************************************************************************)
(* Trend qualification and pullback entries (core/trend_analysis.py,      *)
(* core/pullback_entries.py, core/indicators.py). A bar of the price frame *)
(* is [Close, High, Low, EMA_8, EMA_21, RSI]; a High or Low may be NaN.    *)
(***************************************************************************)
TREND_MIN_DAYS == 60
EMA_8_ADHERENCE_MIN == 70
EMA_21_ADHERENCE_MIN == 80

\* indicators.py: df['Above_8EMA'] = (df['Close'] > df['8_EMA']).astype(bool)
Above_8EMA(bar) == bar.Close > bar.EMA_8
Above_21EMA(bar) == bar.Close > bar.EMA_21

\* indicators.py: ((df['Close'] - df['8_EMA']) / df['8_EMA']) * 100
Distance_8EMA(bar) == Rat((bar.Close - bar.EMA_8) * 100, bar.EMA_8)
Distance_21EMA(bar) == Rat((bar.Close - bar.EMA_21) * 100, bar.EMA_21)

\* The columns df['Above_8EMA'] and df['Above_21EMA'] of a frame.
Above_8EMA_Column(data) == [i \in 1..Len(data) |-> Above_8EMA(data[i])]
Above_21EMA_Column(data) == [i \in 1..Len(data) |-> Above_21EMA(data[i])]

\* column.sum(): the number of True values.
SumOfColumn(column) == Cardinality({i \in 1..Len(column) : column[i]})

\* (recent_data['Above_8EMA'].sum() / len(recent_data)) * 100
Adherence(column) == Rat(SumOfColumn(column) * 100, Len(column))

\* An adherence test that accepts the threshold itself.
StrongEmaAdherence_AtLeast(ema_8_adherence, ema_21_adherence) ==
    \/ RLe(RInt(EMA_8_ADHERENCE_MIN), ema_8_adherence)
    \/ RLe(RInt(EMA_21_ADHERENCE_MIN), ema_21_adherence)

\* ema_8_adherence > 70 or ema_21_adherence > 80
StrongEmaAdherence(ema_8_adherence, ema_21_adherence) ==
    \/ RLt(RInt(EMA_8_ADHERENCE_MIN), ema_8_adherence)
    \/ RLt(RInt(EMA_21_ADHERENCE_MIN), ema_21_adherence)

\* recent_data.iloc[start_idx:end_idx] of segment i (0..3): the last segment
\* runs to the end of the window.
SegmentOf(recent_data, i, segment_size) ==
    SubSeq(recent_data, i * segment_size + 1,
           IF i < 3 THEN (i + 1) * segment_size ELSE Len(recent_data))

\* segment['High'].max(): NaN values are skipped, NaN when nothing is left.
SegmentHigh(segment) ==
    LET known == {segment[j].High : j \in 1..Len(segment)} \ {NaN}
    IN  IF known = {} THEN NaN ELSE CHOOSE h \in known : \A x \in known : x <= h

\* segment['Low'].min()
SegmentLow(segment) ==
    LET known == {segment[j].Low : j \in 1..Len(segment)} \ {NaN}
    IN  IF known = {} THEN NaN ELSE CHOOSE l \in known : \A x \in known : l <= x

\* A test that accepts a rise across segments 1-3 or across segments 2-4.
FirstThreeRise_AnyThree(values) ==
    \/ /\ NaN \notin {values[1], values[2], values[3]}
       /\ values[1] <= values[2]
       /\ values[2] <= values[3]
    \/ /\ NaN \notin {values[2], values[3], values[4]}
       /\ values[2] <= values[3]
       /\ values[3] <= values[4]

\* segment_highs[0] <= segment_highs[1] <= segment_highs[2], False when one of
\* the three is NaN.
FirstThreeRise(values) ==
    /\ NaN \notin {values[1], values[2], values[3]}
    /\ values[1] <= values[2]
    /\ values[2] <= values[3]

\* The (is_strong_trend, trend_score, trend_strength) a call returns; a
\* field of the empty dict {} is Missing.
TrendResult(is_strong_trend, trend_score, a8, a21, hh, hl, strong) ==
    [is_strong_trend |-> is_strong_trend, trend_score |-> trend_score,
     ema_8_adherence |-> a8, ema_21_adherence |-> a21, higher_highs |-> hh,
     higher_lows |-> hl, strong_ema_adherence |-> strong]

NoTrendResult == TrendResult(FALSE, <<>>, <<>>, <<>>, FALSE, FALSE, FALSE)

\* analyze_trend_strength(df, min_days=60)
analyze_trend_strength(df, min_days) ==
    IF Len(df) < min_days
    THEN TrendResult(FALSE, RZero, <<>>, <<>>, FALSE, FALSE, FALSE)
    ELSE LET recent_data == TailOf(df, min_days)
             ema_8_adherence == Adherence(Above_8EMA_Column(recent_data))
             ema_21_adherence == Adherence(Above_21EMA_Column(recent_data))
             strong_ema_adherence == StrongEmaAdherence(ema_8_adherence, ema_21_adherence)
             segment_size == min_days \div 4
             segment_highs == [i \in 1..4 |->
                 SegmentHigh(SegmentOf(recent_data, i - 1, segment_size))]
             segment_lows == [i \in 1..4 |->
                 SegmentLow(SegmentOf(recent_data, i - 1, segment_size))]
             higher_highs == FirstThreeRise(segment_highs)
             higher_lows == FirstThreeRise(segment_lows)
         IN  TrendResult(strong_ema_adherence /\ (higher_highs \/ higher_lows),
                         RDiv(RAdd(ema_8_adherence, ema_21_adherence), RInt(2)),
                         ema_8_adherence, ema_21_adherence, higher_highs, higher_lows,
                         strong_ema_adherence)

\* The names config/settings.py assigns in its technical-indicator block,
\* with their values. It assigns no PULLBACK_*, MIN_ADHERENCE_* or
\* RECLAIM_* name.
TechnicalSettings ==
    [EMA_SHORT |-> RInt(8), EMA_LONG |-> RInt(21), EMA_MARKET_50 |-> RInt(50),
     EMA_MARKET_200 |-> RInt(200), RSI_PERIOD |-> RInt(14)]

\* "arg or settings.NAME": the argument when it is given and not zero, else
\* the attribute of the settings module, AttributeError when the module has
\* no such attribute.
ArgOrSetting(arg, name) ==
    IF arg # Missing /\ arg[1] # 0 THEN [raised |-> FALSE, value |-> arg]
    ELSE IF name \in DOMAIN TechnicalSettings
         THEN [raised |-> FALSE, value |-> TechnicalSettings[name]]
    ELSE [raised |-> TRUE, value |-> RZero]

RAbs(x) == Rat(Abs(x[1]), x[2])

\* What identify_pullback_entries hands back: the list of signals, or the
\* exception that left it.
PullbackReturned(signals) == [kind |-> "returned", signals |-> signals]
PullbackRaised == [kind |-> "AttributeError", signals |-> <<>>]
PullbackNotCalled == [kind |-> "pending", signals |-> <<>>]

\* A reclaim test that looks through all the lookback_days bars of history.
EntrySignalsAt_WholeHistory(recent_data, idx, lookback_days, tolerance_8ema, tolerance_21ema, min_adherence_8ema, min_adherence_21ema, reclaim_lookback) ==
    LET current_row == recent_data[idx]
        history == SubSeq(recent_data, idx - lookback_days, idx - 1)
        hist_8 == Above_8EMA_Column(history)
        hist_21 == Above_21EMA_Column(history)
        prev_above_8ema == IF hist_8 = <<>> THEN RZero
                           ELSE Rat(SumOfColumn(hist_8), Len(hist_8))
        prev_above_21ema == IF hist_21 = <<>> THEN RZero
                            ELSE Rat(SumOfColumn(hist_21), Len(hist_21))
        above_8ema_tail == hist_8
        above_21ema_tail == hist_21
        broke_8ema == \E j \in 1..Len(above_8ema_tail) : ~above_8ema_tail[j]
        held_21ema == /\ above_21ema_tail # <<>>
                      /\ \A j \in 1..Len(above_21ema_tail) : above_21ema_tail[j]
    IN  (IF /\ RLt(RAbs(Distance_8EMA(current_row)), tolerance_8ema)
            /\ Above_8EMA(current_row)
            /\ RLt(min_adherence_8ema, prev_above_8ema)
         THEN <<"8EMA_Retest">> ELSE <<>>)
        \o (IF /\ RLt(RAbs(Distance_21EMA(current_row)), tolerance_21ema)
               /\ Above_21EMA(current_row)
               /\ RLt(min_adherence_21ema, prev_above_21ema)
            THEN <<"21EMA_Retest">> ELSE <<>>)
        \o (IF broke_8ema /\ held_21ema /\ Above_8EMA(current_row)
            THEN <<"8EMA_Reclaim">> ELSE <<>>)

\* The signal types of the bar at position idx (counted from 1) of
\* recent_data, against the lookback_days bars before it.
EntrySignalsAt(recent_data, idx, lookback_days, tolerance_8ema, tolerance_21ema, min_adherence_8ema, min_adherence_21ema, reclaim_lookback) ==
    LET current_row == recent_data[idx]
        history == SubSeq(recent_data, idx - lookback_days, idx - 1)
        hist_8 == Above_8EMA_Column(history)
        hist_21 == Above_21EMA_Column(history)
        prev_above_8ema == IF hist_8 = <<>> THEN RZero
                           ELSE Rat(SumOfColumn(hist_8), Len(hist_8))
        prev_above_21ema == IF hist_21 = <<>> THEN RZero
                            ELSE Rat(SumOfColumn(hist_21), Len(hist_21))
        above_8ema_tail == TailOf(hist_8, reclaim_lookback)
        above_21ema_tail == TailOf(hist_21, reclaim_lookback)
        broke_8ema == \E j \in 1..Len(above_8ema_tail) : ~above_8ema_tail[j]
        held_21ema == /\ above_21ema_tail # <<>>
                      /\ \A j \in 1..Len(above_21ema_tail) : above_21ema_tail[j]
    IN  (IF /\ RLt(RAbs(Distance_8EMA(current_row)), tolerance_8ema)
            /\ Above_8EMA(current_row)
            /\ RLt(min_adherence_8ema, prev_above_8ema)
         THEN <<"8EMA_Retest">> ELSE <<>>)
        \o (IF /\ RLt(RAbs(Distance_21EMA(current_row)), tolerance_21ema)
               /\ Above_21EMA(current_row)
               /\ RLt(min_adherence_21ema, prev_above_21ema)
            THEN <<"21EMA_Retest">> ELSE <<>>)
        \o (IF broke_8ema /\ held_21ema /\ Above_8EMA(current_row)
            THEN <<"8EMA_Reclaim">> ELSE <<>>)

\* The loop "for idx in range(lookback_days, len(recent_data))" from idx on:
\* one record per bar that has a signal; first is the position in df of the
\* first bar of recent_data.
RECURSIVE ScanFrom(_, _, _, _)
ScanFrom(recent_data, idx, first, p) ==
    IF idx > Len(recent_data) THEN <<>>
    ELSE LET entry_signals ==
                 EntrySignalsAt(recent_data, idx, p.lookback_days, p.tolerance_8ema,
                                p.tolerance_21ema, p.min_adherence_8ema,
                                p.min_adherence_21ema, p.reclaim_lookback)
             row == recent_data[idx]
         IN  (IF entry_signals = <<>> THEN <<>>
              ELSE <<[date |-> first + idx - 1, close |-> row.Close,
                      signals |-> entry_signals, rsi |-> row.RSI,
                      distance_8ema |-> Distance_8EMA(row),
                      distance_21ema |-> Distance_21EMA(row)]>>)
             \o ScanFrom(recent_data, idx + 1, first, p)

\* identify_pullback_entries(df, lookback_days=None, ..., reclaim_lookback=
\* None); args holds the six keyword arguments, Missing for None.
identify_pullback_entries(df, args) ==
    LET lookback_days == ArgOrSetting(args.lookback_days, "PULLBACK_LOOKBACK_DAYS")
        tolerance_8ema == ArgOrSetting(args.tolerance_8ema, "PULLBACK_8EMA_TOLERANCE")
        tolerance_21ema == ArgOrSetting(args.tolerance_21ema, "PULLBACK_21EMA_TOLERANCE")
        min_adherence_8ema == ArgOrSetting(args.min_adherence_8ema, "MIN_ADHERENCE_8EMA")
        min_adherence_21ema == ArgOrSetting(args.min_adherence_21ema, "MIN_ADHERENCE_21EMA")
        reclaim_lookback == ArgOrSetting(args.reclaim_lookback, "RECLAIM_LOOKBACK_DAYS")
    IN  IF \/ lookback_days.raised \/ tolerance_8ema.raised \/ tolerance_21ema.raised
           \/ min_adherence_8ema.raised \/ min_adherence_21ema.raised
           \/ reclaim_lookback.raised
        THEN PullbackRaised
        ELSE LET n == lookback_days.value[1]
                 recent_data == TailOf(df, n + 5)
             IN  IF Len(df) < n + 5 THEN PullbackReturned(<<>>)
                 ELSE PullbackReturned(
                          ScanFrom(recent_data, n + 1, Len(df) - Len(recent_data) + 1,
                                   [lookback_days |-> n,
                                    tolerance_8ema |-> tolerance_8ema.value,
                                    tolerance_21ema |-> tolerance_21ema.value,
                                    min_adherence_8ema |-> min_adherence_8ema.value,
                                    min_adherence_21ema |-> min_adherence_21ema.value,
                                    reclaim_lookback |-> reclaim_lookback.value[1]]))

\* The signals of bar i in enhanced_trading_algo.identify_pullback_entries:
\* the thresholds are literals, and the reclaim signal also asks the current
\* bar to close above the 21-EMA.
EnhancedEntrySignalsAt(recent_data, i, lookback_days) ==
    LET current_row == recent_data[i]
        previous_rows == SubSeq(recent_data, i - lookback_days, i - 1)
        prev_8 == Above_8EMA_Column(previous_rows)
        prev_21 == Above_21EMA_Column(previous_rows)
        prev_above_8ema_mean == IF prev_8 = <<>> THEN RZero
                                ELSE Rat(SumOfColumn(prev_8), Len(prev_8))
        prev_above_21ema_mean == IF prev_21 = <<>> THEN RZero
                                 ELSE Rat(SumOfColumn(prev_21), Len(prev_21))
        above_8ema_tail == TailOf(prev_8, 5)
        above_21ema_tail == TailOf(prev_21, 5)
        broke_8ema_recently == \E j \in 1..Len(above_8ema_tail) : ~above_8ema_tail[j]
        held_21ema == /\ Above_21EMA(current_row)
                      /\ above_21ema_tail # <<>>
                      /\ \A j \in 1..Len(above_21ema_tail) : above_21ema_tail[j]
        reclaimed_8ema == Above_8EMA(current_row)
    IN  (IF /\ RLt(RAbs(Distance_8EMA(current_row)), RInt(2))
            /\ Above_8EMA(current_row)
            /\ RLt(Rat(7, 10), prev_above_8ema_mean)
         THEN <<"8EMA_Retest">> ELSE <<>>)
        \o (IF /\ RLt(RAbs(Distance_21EMA(current_row)), RInt(3))
               /\ Above_21EMA(current_row)
               /\ RLt(Rat(8, 10), prev_above_21ema_mean)
            THEN <<"21EMA_Retest">> ELSE <<>>)
        \o (IF broke_8ema_recently /\ held_21ema /\ reclaimed_8ema
            THEN <<"8EMA_Reclaim">> ELSE <<>>)

\* Its loop "for i in range(lookback_days, len(recent_data))" from i on.
RECURSIVE EnhancedScanFrom(_, _, _, _)
EnhancedScanFrom(recent_data, i, first, lookback_days) ==
    IF i > Len(recent_data) THEN <<>>
    ELSE LET entry_signals == EnhancedEntrySignalsAt(recent_data, i, lookback_days)
             row == recent_data[i]
         IN  (IF entry_signals = <<>> THEN <<>>
              ELSE <<[date |-> first + i - 1, close |-> row.Close,
                      signals |-> entry_signals, rsi |-> row.RSI,
                      distance_8ema |-> Distance_8EMA(row),
                      distance_21ema |-> Distance_21EMA(row)]>>)
             \o EnhancedScanFrom(recent_data, i + 1, first, lookback_days)

\* identify_pullback_entries(df, lookback_days=10) of enhanced_trading_algo.py
ENHANCED_LOOKBACK_DAYS == 10
enhanced_identify_pullback_entries(df, lookback_days) ==
    IF Len(df) < lookback_days + 5 THEN PullbackReturned(<<>>)
    ELSE LET recent_data == TailOf(df, lookback_days + 5)
         IN  PullbackReturned(
                 EnhancedScanFrom(recent_data, lookback_days + 1,
                                  Len(df) - Len(recent_data) + 1, lookback_days))

\* No call made yet.
NoPullbackCall == [module |-> "none", start |-> 0]

\* identify_pullback_entries(analysis_df), as find_high_momentum_entries
\* calls it.
NoOverrides ==
    [lookback_days |-> Missing, tolerance_8ema |-> Missing, tolerance_21ema |-> Missing,
     min_adherence_8ema |-> Missing, min_adherence_21ema |-> Missing,
     reclaim_lookback |-> Missing]

\* The keyword arguments a caller may give: the documented defaults, all of
\* them or the lookback alone.
AllOverrides ==
    [lookback_days |-> RInt(10), tolerance_8ema |-> RInt(2), tolerance_21ema |-> RInt(3),
     min_adherence_8ema |-> Rat(7, 10), min_adherence_21ema |-> Rat(8, 10),
     reclaim_lookback |-> RInt(5)]
PullbackArgs ==
    {NoOverrides, AllOverrides, [NoOverrides EXCEPT !.lookback_days = RInt(10)]}

(***************************************************************************)
(* Price frames for the trend stage: closes of 100; k8 of the last 60 bars *)
(* close above the 8-EMA and k21 above the 21-EMA, the bars below being    *)
(* the oldest or the newest of the window; highs and lows follow a pattern *)
(* over the four 15-bar segments.                                          *)
(***************************************************************************)
MaxExtraBars == 1
TrendLengths == {14, 15, 16, 59} \cup {60 + x : x \in 0..MaxExtraBars}
Above8Counts == {41, 42, 43, 60}
Above21Counts == {0, 48, 49}
BelowAt == {"oldest", "newest"}
HighPatterns == {"rising", "flat", "falling", "late drop", "early dip", "missing"}
LowPatterns == {"rising", "falling"}
EmaGaps == {1, 3}

SegmentLevel(pattern, segment) ==
    CASE pattern = "rising" -> <<1, 2, 3, 4>>[segment]
      [] pattern = "flat" -> 1
      [] pattern = "falling" -> <<4, 3, 2, 1>>[segment]
      [] pattern = "late drop" -> <<2, 3, 4, 1>>[segment]
      [] pattern = "early dip" -> <<2, 1, 3, 4>>[segment]
      [] OTHER -> <<1, NaN, 3, 4>>[segment]

TrendFrame(n, k8, k21, below_at, highs, lows, gap) ==
    [i \in 1..n |->
        LET w == i - (n - 60)
            segment == IF w <= 15 THEN 1 ELSE IF w <= 30 THEN 2
                       ELSE IF w <= 45 THEN 3 ELSE 4
            above_8 == IF below_at = "oldest" THEN w > 60 - k8 ELSE w <= k8
            above_21 == IF below_at = "oldest" THEN w > 60 - k21 ELSE w <= k21
            high == SegmentLevel(highs, segment)
            low == SegmentLevel(lows, segment)
        IN  [Close |-> 100,
             High |-> IF high = NaN THEN NaN ELSE 100 + high,
             Low |-> 90 + low,
             EMA_8 |-> IF above_8 THEN 100 - gap ELSE 100 + gap,
             EMA_21 |-> IF above_21 THEN 100 - 2 * gap ELSE 100 + 2 * gap,
             RSI |-> 50]]

\* Frames for the reclaim signal: closes of 100 above an 8-EMA of 99 and a
\* 21-EMA of 98, but for one bar, dip_at bars before the latest, that closes
\* under the 8-EMA (101) alone, and one bar, lost_at bars before the latest,
\* that closes under both EMAs (101 and 102). NoBar: no such bar. The
\* EMAs are recursive averages of the closes (ta's EMAIndicator), so a close
\* that follows closes above a 21-EMA that lay under the 8-EMA and is itself
\* at or under the 21-EMA is under the 8-EMA too.
NoBar == 0 - 1
ReclaimLengths == {15, 16}
DipAt == {NoBar, 1, 2, 5, 6}
LostAt == {NoBar, 0, 3, 6}

ReclaimFrame(n, dip_at, lost_at) ==
    [i \in 1..n |->
        LET dip == i = n - dip_at
            lost == i = n - lost_at
        IN  [Close |-> 100, High |-> 101, Low |-> 99,
             EMA_8 |-> IF dip \/ lost THEN 101 ELSE 99,
             EMA_21 |-> IF lost THEN 102 ELSE 98,
             RSI |-> 50]]

ReclaimFrames ==
    {ReclaimFrame(n, dip_at, lost_at) :
        n \in ReclaimLengths, dip_at \in DipAt, lost_at \in LostAt}

TrendFrames ==
    {TrendFrame(n, k8, k21, below_at, highs, lows, gap) :
        n \in TrendLengths, k8 \in Above8Counts, k21 \in Above21Counts,
        below_at \in BelowAt, highs \in HighPatterns, lows \in LowPatterns,
        gap \in EmaGaps}
    \cup ReclaimFrames

TrendInit ==
    /\ trend_history \in TrendFrames
    /\ trend_out = NoTrendResult
    /\ trend_called = FALSE
    /\ pullback_args = NoOverrides
    /\ pullback_out = PullbackNotCalled
    /\ pullback_call = NoPullbackCall

TrendIdle ==
    /\ trend_history = <<>>
    /\ trend_out = NoTrendResult
    /\ trend_called = FALSE
    /\ pullback_args = NoOverrides
    /\ pullback_out = PullbackNotCalled
    /\ pullback_call = NoPullbackCall

\* analyze_trend_strength(price_history), min_days left at its default.
AnalyzeTrendStrength ==
    /\ ~trend_called
    /\ trend_called' = TRUE
    /\ trend_out' = analyze_trend_strength(trend_history, TREND_MIN_DAYS)
    /\ UNCHANGED <<trend_history, pullback_args, pullback_out, pullback_call>>

\* identify_pullback_entries(analysis_df, ...): analysis_df holds the bars of
\* price_history dated on or after the start date.
IdentifyPullbackEntries ==
    /\ pullback_out = PullbackNotCalled
    /\ \E args \in PullbackArgs, start \in {1, 2} :
         /\ pullback_args' = args
         /\ pullback_out' =
                identify_pullback_entries(
                    SubSeq(trend_history, start, Len(trend_history)), args)
         /\ pullback_call' = [module |-> "core.pullback_entries", start |-> start]
    /\ UNCHANGED <<trend_history, trend_out, trend_called>>

\* identify_pullback_entries(analysis_df) of enhanced_trading_algo.py, its
\* lookback_days left at the default of 10.
EnhancedIdentifyPullbackEntries ==
    /\ pullback_out = PullbackNotCalled
    /\ \E start \in {1, 2} :
         /\ pullback_out' =
                enhanced_identify_pullback_entries(
                    SubSeq(trend_history, start, Len(trend_history)),
                    ENHANCED_LOOKBACK_DAYS)
         /\ pullback_call' = [module |-> "enhanced_trading_algo", start |-> start]
    /\ UNCHANGED <<trend_history, trend_out, trend_called, pullback_args>>

(***************************************************************************)
(* The screener (core/stock_screening.py): screen_stocks_canslim walks its *)
(* symbols and keeps the entries find_high_momentum_entries returns.       *)
(***************************************************************************)
MIN_RS_SCORE == 80
MIN_CANSLIM_SCORE == 70
MIN_SCREEN_HISTORY == 120

\* What evaluate_canslim gave for a symbol: a view, None, or an exception.
CanslimView(rs_score, total) == [kind |-> "view", rs_score |-> rs_score, total_score |-> total]
CanslimUnavailable == [kind |-> "None", rs_score |-> 0, total_score |-> 0]
CanslimRaised == [kind |-> "raised", rs_score |-> 0, total_score |-> 0]

\* What find_high_momentum_entries does for one symbol: it returns an entry,
\* returns None at the stage named by why, or an exception leaves it.
Entry(symbol, view, signals) == [kind |-> "entry", symbol |-> symbol, why |-> "entry", total_score |-> view.total_score, entry_signals |-> signals]
NoEntry(symbol, why) == [kind |-> "None", symbol |-> symbol, why |-> why, total_score |-> 0, entry_signals |-> <<>>]
ExceptionLeft(symbol, why) == [kind |-> "raised", symbol |-> symbol, why |-> why, total_score |-> 0, entry_signals |-> <<>>]

\* find_high_momentum_entries(symbol, ...): canslim_view is what
\* evaluate_canslim gave, price_history the downloaded frame with its
\* indicator columns, start the position of the first bar dated on or
\* after start_date.
find_high_momentum_entries(symbol, canslim_view, price_history, start, min_rs_score, min_canslim_score) ==
    IF canslim_view.kind = "raised" THEN ExceptionLeft(symbol, "evaluate_canslim")
    ELSE IF canslim_view.kind = "None" THEN NoEntry(symbol, "no view")
    ELSE IF canslim_view.rs_score < min_rs_score THEN NoEntry(symbol, "rs_score")
    ELSE IF canslim_view.total_score < min_canslim_score THEN NoEntry(symbol, "total_score")
    ELSE IF Len(price_history) < MIN_SCREEN_HISTORY THEN NoEntry(symbol, "history")
    ELSE IF ~analyze_trend_strength(price_history, TREND_MIN_DAYS).is_strong_trend
         THEN NoEntry(symbol, "trend")
    ELSE LET analysis_df == SubSeq(price_history, start, Len(price_history))
             entry_signals == identify_pullback_entries(analysis_df, NoOverrides)
         IN  IF entry_signals.kind # "returned" THEN ExceptionLeft(symbol, entry_signals.kind)
             ELSE IF entry_signals.signals = <<>> THEN NoEntry(symbol, "signals")
             ELSE Entry(symbol, canslim_view, entry_signals.signals)

\* The loop body without its try/except: an exception leaves the loop.
AfterSymbol_Propagates(outcome) ==
    IF outcome.kind = "raised" THEN [pc |-> "aborted", append |-> FALSE]
    ELSE [pc |-> "loop", append |-> outcome.kind = "entry"]

\* try: entry = find_high_momentum_entries(...) except Exception: entry =
\* None; if entry: results.append(entry)
AfterSymbol(outcome) ==
    [pc |-> "loop", append |-> outcome.kind = "entry"]

\* results.sort(key=total_score, reverse=True): stable, highest first.
RECURSIVE SortByTotalScore(_)
SortByTotalScore(results) ==
    IF results = <<>> THEN <<>>
    ELSE LET best == CHOOSE i \in 1..Len(results) :
                        /\ \A j \in 1..Len(results) :
                               results[j].total_score <= results[i].total_score
                        /\ \A j \in 1..(i - 1) :
                               results[j].total_score < results[i].total_score
         IN  <<results[best]>> \o
             SortByTotalScore(SubSeq(results, 1, best - 1)
                              \o SubSeq(results, best + 1, Len(results)))

\* The screener's inputs: up to MaxSymbols symbols, a symbol may be listed
\* twice; per symbol what evaluate_canslim and the download give.
MaxSymbols == 3
ScreenUniverse == {"AAPL", "MSFT"}
SymbolLists == UNION {[1..n -> ScreenUniverse] : n \in 0..MaxSymbols}
CanslimViews ==
    {CanslimRaised, CanslimUnavailable}
    \cup {CanslimView(rs, total) : rs \in {79, 80}, total \in {69, 70}}
ScreenHistories ==
    {TrendFrame(n, 60, 49, "oldest", "falling", lows, 1) :
        n \in {119, 120}, lows \in {"rising", "falling"}}

ScreenInit ==
    /\ scr_symbols \in SymbolLists
    /\ scr_index = 1
    /\ scr_results = <<>>
    /\ scr_log = <<>>
    /\ scr_pc = "loop"

ScreenIdle ==
    /\ scr_symbols = <<>>
    /\ scr_index = 1
    /\ scr_results = <<>>
    /\ scr_log = <<>>
    /\ scr_pc = "idle"

\* One pass of "for symbol in symbols".
ScreenSymbol ==
    /\ scr_pc = "loop"
    /\ scr_index <= Len(scr_symbols)
    /\ \E view \in CanslimViews, price_history \in ScreenHistories, start \in {1, 61} :
         LET outcome == find_high_momentum_entries(scr_symbols[scr_index], view, price_history, start, MIN_RS_SCORE, MIN_CANSLIM_SCORE)
             after == AfterSymbol(outcome)
         IN  /\ scr_log' = Append(scr_log, outcome)
             /\ scr_results' = IF after.append THEN Append(scr_results, outcome)
                               ELSE scr_results
             /\ scr_pc' = after.pc
             /\ scr_index' = scr_index + 1
    /\ UNCHANGED scr_symbols

\* The end of the loop: sort and return.
ScreenReturn ==
    /\ scr_pc = "loop"
    /\ scr_index > Len(scr_symbols)
    /\ scr_results' = SortByTotalScore(scr_results)
    /\ scr_pc' = "returned"
    /\ UNCHANGED <<scr_symbols, scr_index, scr_log>>

(***************************************************************************)
(* Loading the configuration (config/settings.py) and scoring with it      *)
(* (core/canslim/core.py): the module assigns its names, evaluate_canslim  *)
(* reads them when it scores.                                              *)
(***************************************************************************)
\* The names of config/settings.py the composite reads, as a file assigns
\* them.
SettingsModule(weight_c, weight_m, c_growth_target) ==
    [CANSLIM_WEIGHT_C |-> weight_c, CANSLIM_WEIGHT_A |-> CANSLIM_WEIGHT_A,
     CANSLIM_WEIGHT_N |-> CANSLIM_WEIGHT_N, CANSLIM_WEIGHT_S |-> CANSLIM_WEIGHT_S,
     CANSLIM_WEIGHT_L |-> CANSLIM_WEIGHT_L, CANSLIM_WEIGHT_I |-> CANSLIM_WEIGHT_I,
     CANSLIM_WEIGHT_M |-> weight_m, C_GROWTH_TARGET |-> c_growth_target]

\* The file as the repository ships it, and edited files: a C weight of 0.30
\* or 0.10, an M weight of 0, a C target of -0.25.
ShippedSettings == SettingsModule(CANSLIM_WEIGHT_C, CANSLIM_WEIGHT_M, C_GROWTH_TARGET)
SettingsFiles ==
    {SettingsModule(weight_c, weight_m, target) :
        weight_c \in {CANSLIM_WEIGHT_C, CANSLIM_WEIGHT_C_Heavy, Rat(10, 100)},
        weight_m \in {CANSLIM_WEIGHT_M, RZero},
        target \in {C_GROWTH_TARGET, Rat(0 - 25, 100)}}

\* "import config.settings": the module body is a list of assignments, it
\* checks nothing and raises nothing.
import_settings(file) == [raised |-> FALSE, module |-> {file}]

\* Step 6 of evaluate_canslim, full path, with the weights of the imported
\* module.
WeightedTotal(cfg, s) ==
    RMul(RAdd(RAdd(RAdd(RAdd(RAdd(RAdd(
        RMul(cfg.CANSLIM_WEIGHT_C, s["C"]),
        RMul(cfg.CANSLIM_WEIGHT_A, s["A"])),
        RMul(cfg.CANSLIM_WEIGHT_N, s["N"])),
        RMul(cfg.CANSLIM_WEIGHT_S, s["S"])),
        RMul(cfg.CANSLIM_WEIGHT_L, s["L"])),
        RMul(cfg.CANSLIM_WEIGHT_I, s["I"])),
        RMul(cfg.CANSLIM_WEIGHT_M, s["M"])), RInt(100))

ConfigGrowths == {Rat(0 - 1, 2), Rat(1, 4), Rat(1, 2)}

ConfigInit ==
    /\ settings_file \in SettingsFiles
    /\ settings = {}
    /\ config_error = FALSE
    /\ config_scores = [k \in Components |-> RZero]
    /\ config_total = Missing

ConfigIdle ==
    /\ settings_file = ShippedSettings
    /\ settings = {}
    /\ config_error = FALSE
    /\ config_scores = [k \in Components |-> RZero]
    /\ config_total = Missing

\* The program starts: "from config import settings".
ImportSettings ==
    /\ settings = {}
    /\ ~config_error
    /\ LET imported == import_settings(settings_file)
       IN  /\ config_error' = imported.raised
           /\ settings' = IF imported.raised THEN {} ELSE imported.module
    /\ UNCHANGED <<settings_file, config_scores, config_total>>

\* evaluate_canslim on a symbol with two quarters of earnings: the C score
\* from the growth and settings.C_GROWTH_TARGET, the other scores as their
\* evaluators gave them, then the weighted total.
ScoreWithSettings ==
    /\ settings # {}
    /\ config_total = Missing
    /\ \E module \in settings, current_growth_ \in ConfigGrowths, l \in {RZero, ROne}, m \in {RZero, ROne} :
         LET c_growth_target == PyOr(Missing, module.C_GROWTH_TARGET)
             score_c == GrowthScore(current_growth_, c_growth_target)
             all == [k \in Components |->
                        CASE k = "C" -> score_c
                          [] k = "L" -> l
                          [] k = "M" -> m
                          [] OTHER -> ROne]
         IN  /\ config_scores' = all
             /\ config_total' = WeightedTotal(module, all)
    /\ UNCHANGED <<settings_file, settings, config_error>>

(***************************************************************************)
(* The backtest (backtest.py, run_backtest): for one ticker and one        *)
(* evaluation date, the market, RS, L, N and S values of the record. Two   *)
(* runs are followed side by side: their price data hold the same bars up  *)
(* to the evaluation date and each its own bars after it.                  *)
(***************************************************************************)
BACKTEST_MIN_BARS == 60
HIGH_52_LOOKBACK == 252
AVG_VOLUME_BARS == 50

\* The look-ahead slice: one bar past the evaluation date.
Loc_OneBarLater(df, asof) == SubSeq(df, 1, IF asof < Len(df) THEN asof + 1 ELSE asof)

\* df.loc[:eval_date] on a frame sorted by date: asof is the number of its
\* bars dated on or before eval_date.
Loc(df, asof) == SubSeq(df, 1, asof)

\* The proximity ladder of _evaluate_technical_at_date.
BacktestProximityScore(proximity) ==
    IF RLe(Rat(98, 100), proximity) THEN ROne
    ELSE IF RLe(Rat(90, 100), proximity)
         THEN RDiv(RSub(proximity, Rat(90, 100)), RSub(Rat(98, 100), Rat(90, 100)))
    ELSE IF RLe(Rat(75, 100), proximity)
         THEN RMul(RDiv(RSub(proximity, Rat(75, 100)), RSub(Rat(90, 100), Rat(75, 100))),
                   Rat(3, 10))
    ELSE RZero

Technical(known, n_score, s_score, proximity, close) ==
    [known |-> known, n_score |-> n_score, s_score |-> s_score,
     proximity |-> proximity, close |-> close]

\* _evaluate_technical_at_date(ticker_data, eval_date, shares_outstanding)
evaluate_technical_at_date(ticker_data, asof, shares_outstanding) ==
    LET sliced == Loc(ticker_data, asof)
        n == Len(sliced)
    IN  IF n < BACKTEST_MIN_BARS THEN Technical(FALSE, RZero, RZero, RZero, 0)
        ELSE
        LET closes == [i \in 1..n |-> sliced[i].Close]
            volumes == [i \in 1..n |-> sliced[i].Volume]
            latest_close == closes[n]
            lookback_252 == IF n < HIGH_52_LOOKBACK THEN n ELSE HIGH_52_LOOKBACK
            high_52 == CHOOSE h \in {closes[i] : i \in (n - lookback_252 + 1)..n} :
                           \A i \in (n - lookback_252 + 1)..n : closes[i] <= h
            proximity == IF high_52 # 0 THEN Rat(latest_close, high_52) ELSE RZero
            avg_vol_50 == IF n >= AVG_VOLUME_BARS
                          THEN Mean((n - AVG_VOLUME_BARS + 1)..n, volumes)
                          ELSE Mean(1..n, volumes)
            n_score == RClip(BacktestProximityScore(proximity), RZero, ROne)
            score_s == evaluate_s([columns |-> OHLCV, bars |-> sliced], avg_vol_50,
                                  RInt(latest_close), RInt(high_52), shares_outstanding)
        IN  Technical(TRUE, n_score, score_s.score, proximity, latest_close)

\* The L score with the power curve of evaluate_l.
BacktestLScore_Squared(rs_score) ==
    RClip(RMul(RDiv(rs_score, RInt(100)), RDiv(rs_score, RInt(100))), RZero, ROne)

\* l_score = rs_score / 100.0
BacktestLScore(rs_score) == RDiv(rs_score, RInt(100))

\* What run_backtest has for (ticker, eval_date): nothing yet, no record
\* (fewer than 60 bars available), or the record's values.
NoRecordYet ==
    [kind |-> "pending", rs_score |-> RZero, l_score |-> RZero, n_score |-> RZero,
     s_score |-> RZero, proximity |-> RZero, close |-> 0, total |-> RZero]
Skipped == [NoRecordYet EXCEPT !.kind = "skipped"]
Record(rs_score, l_score, tech, total) ==
    [kind |-> "recorded", rs_score |-> rs_score, l_score |-> l_score,
     n_score |-> tech.n_score, s_score |-> tech.s_score,
     proximity |-> tech.proximity, close |-> tech.close, total |-> total]

\* The body of "for ticker in BACKTEST_TICKERS" for one ticker: fundamentals
\* has no entry for it, so c, a are 0.0, i is 0.1, shares_outstanding None.
backtest_ticker_at_date(tdata, all_closes_, ticker, asof, closes_asof, m_score) ==
    IF Len(Loc(tdata, asof)) < BACKTEST_MIN_BARS THEN Skipped
    ELSE LET rs_score == calculate_rs_at_date(all_closes_, ticker, closes_asof).value
             l_score == BacktestLScore(rs_score)
             tech == evaluate_technical_at_date(tdata, asof, Missing)
             total == compute_canslim_score(RZero, RZero, tech.n_score, tech.s_score,
                                            l_score, Rat(1, 10), m_score, FALSE)
         IN  Record(rs_score, l_score, tech, total)

\* Price data: the bars up to the evaluation date, and the bars a run has
\* after it.
Runs == {"first", "second"}
Futures == {"none", "surge", "crash"}

SpyPast ==
    {RallyHistory(n, 1, 4, 16, 10, "rising", "quiet") : n \in {49, 50}}
SpyFuture(kind, last) ==
    CASE kind = "surge" -> <<[Close |-> last.Close + 50, Volume |-> last.Volume + 500]>>
      [] kind = "crash" -> <<[Close |-> last.Close - 100, Volume |-> last.Volume + 500],
                             [Close |-> last.Close - 120, Volume |-> last.Volume + 900]>>
      [] OTHER -> <<>>

\* A ticker's bars: a base at 100, a breakout on the latest bar, or a peak at
\* 120 thirty bars back.
TickerKinds == {"base", "breakout", "off the high"}
TickerPast(kind, n) ==
    [i \in 1..n |->
        CASE kind = "breakout" /\ i = n -> Bar(110, 2000)
          [] kind = "off the high" /\ i = n - 30 -> Bar(120, 1000)
          [] OTHER -> Bar(100, 1000)]
TickerFuture(kind) ==
    CASE kind = "surge" -> <<Bar(200, 5000)>>
      [] kind = "crash" -> <<Bar(50, 5000), Bar(40, 6000)>>
      [] OTHER -> <<>>

\* The close-price frame: the tracked column of some shape, a flat one, and
\* the reference universe; after the evaluation date every column moves.
ClosesFuture(kind) ==
    CASE kind = "surge" -> <<4>>
      [] kind = "crash" -> <<1, 1>>
      [] OTHER -> <<>>
WithFuture(frame, kind) ==
    [c \in 1..Len(frame) |->
        [Ticker |-> frame[c].Ticker,
         data |-> frame[c].data \o (IF c % 2 = 1 THEN ClosesFuture(kind) ELSE
                                    [j \in 1..Len(ClosesFuture(kind)) |-> 2])]]

\* The data a run downloads.
spy_data(run) == bt_spy \o SpyFuture(bt_future[run], bt_spy[Len(bt_spy)])
ticker_ohlcv(run) == bt_tdata \o TickerFuture(bt_future[run])
all_closes_of(run) == WithFuture(bt_closes, bt_future[run])

BacktestInit ==
    /\ bt_spy \in SpyPast
    /\ \E kind \in TickerKinds, n \in {59, 60} : bt_tdata = TickerPast(kind, n)
    /\ \E ka \in {"surging", "falling", "short1"} :
           bt_closes = MakeFrame(ka, "flat", MaxBackground)
    /\ bt_future \in [Runs -> Futures]
    /\ bt_market = [r \in Runs |-> NoTrend]
    /\ bt_ewm = [r \in Runs |-> NoEwm]
    /\ bt_sliced = [r \in Runs |-> <<>>]
    /\ bt_record = [r \in Runs |-> NoRecordYet]

BacktestIdle ==
    /\ bt_spy = <<>>
    /\ bt_tdata = <<>>
    /\ bt_closes = <<>>
    /\ bt_future = [r \in Runs |-> "none"]
    /\ bt_market = [r \in Runs |-> NoTrend]
    /\ bt_ewm = [r \in Runs |-> NoEwm]
    /\ bt_sliced = [r \in Runs |-> <<>>]
    /\ bt_record = [r \in Runs |-> NoRecordYet]

\* m_score, m_bullish, dist_days, ftd = _evaluate_market_at_date(spy_data,
\* eval_date). The ewm results are the library's: the same closes give the
\* same results in both runs.
BacktestMarketAtDate(run) ==
    /\ bt_sliced[run] = <<>>
    /\ LET sliced == Loc(spy_data(run), Len(bt_spy))
       IN  /\ bt_sliced' = [bt_sliced EXCEPT ![run] = sliced]
           /\ IF Len(sliced) < M_MIN_BARS
              THEN /\ bt_market' = [bt_market EXCEPT ![run] =
                                       evaluate_market_at_date(sliced, <<>>, NoEwm)]
                   /\ bt_ewm' = bt_ewm
              ELSE LET signals == BacktestSignals(sliced)
                   IN  \E ema \in EwmResults(sliced[Len(sliced)].Close) :
                         /\ \A other \in Runs \ {run} :
                                bt_sliced[other] = sliced /\ bt_ewm[other] # NoEwm
                                    => ema = bt_ewm[other]
                         /\ bt_ewm' = [bt_ewm EXCEPT ![run] = ema]
                         /\ bt_market' = [bt_market EXCEPT ![run] =
                                evaluate_market_at_date(sliced, signals, ema)]
    /\ UNCHANGED <<bt_spy, bt_tdata, bt_closes, bt_future, bt_record>>

\* The ticker's pass of the loop at that date.
BacktestTickerAtDate(run) ==
    /\ bt_sliced[run] # <<>>
    /\ bt_record[run] = NoRecordYet
    /\ bt_record' = [bt_record EXCEPT ![run] =
           backtest_ticker_at_date(ticker_ohlcv(run), all_closes_of(run), TrackedA,
                                   Len(bt_tdata), FrameLen, bt_market[run].score)]
    /\ UNCHANGED <<bt_spy, bt_tdata, bt_closes, bt_future, bt_market, bt_ewm, bt_sliced>>

(***************************************************************************)
(* Specifications: each runs one part of the engine, the rest stays idle. *)
(***************************************************************************)
\* No ranking in progress: the other specifications leave these alone.
RankIdle ==
    /\ all_closes = <<>>
    /\ eval_date = 0
    /\ rs_scores_df = NotCalled
    /\ rs_momentum = [t \in Asked |-> NotAsked]
    /\ rs_at_date = [t \in Asked |-> NotAsked]
    /\ driver = None
    /\ next_symbol = 1

RankNext ==
    \/ RankUniverse /\ UNCHANGED <<compVars, cacheVars, evalVars, marketVars, trendVars, screenVars, configVars, backtestVars>>
    \/ LookupRsMomentum /\ UNCHANGED <<compVars, cacheVars, evalVars, marketVars, trendVars, screenVars, configVars, backtestVars>>
    \/ CalculateRsAtDate /\ UNCHANGED <<compVars, cacheVars, evalVars, marketVars, trendVars, screenVars, configVars, backtestVars>>

\* No composite being scored: the other specifications leave these alone.
CompIdle ==
    /\ scores = [k \in Components |-> RZero]
    /\ current_growth = None
    /\ annual_growth = None
    /\ has_fundamentals = None
    /\ total_score = None
    /\ scorer = None

CompNext ==
    \/ EvaluateCanslim /\ UNCHANGED <<rankVars, cacheVars, evalVars, marketVars, trendVars, screenVars, configVars, backtestVars>>
    \/ RunBacktestScore /\ UNCHANGED <<rankVars, cacheVars, evalVars, marketVars, trendVars, screenVars, configVars, backtestVars>>
    \/ ComputeCanslimScore /\ UNCHANGED <<rankVars, cacheVars, evalVars, marketVars, trendVars, screenVars, configVars, backtestVars>>

\* Two workers calling concurrently.
CacheNext ==
    \/ \E p \in Workers : Call(p) /\ UNCHANGED <<compVars, rankVars, evalVars, marketVars, trendVars, screenVars, configVars, backtestVars>>
    \/ \E p \in Workers : CheckCache(p) /\ UNCHANGED <<compVars, rankVars, evalVars, marketVars, trendVars, screenVars, configVars, backtestVars>>
    \/ \E p \in Workers : DownloadAndRank(p) /\ UNCHANGED <<compVars, rankVars, evalVars, marketVars, trendVars, screenVars, configVars, backtestVars>>
    \/ \E p \in Workers : SaveCache(p) /\ UNCHANGED <<compVars, rankVars, evalVars, marketVars, trendVars, screenVars, configVars, backtestVars>>
    \/ \E p \in Workers : LookupReturned(p) /\ UNCHANGED <<compVars, rankVars, evalVars, marketVars, trendVars, screenVars, configVars, backtestVars>>
    \/ \E p \in Workers : Finish(p) /\ UNCHANGED <<compVars, rankVars, evalVars, marketVars, trendVars, screenVars, configVars, backtestVars>>
    \/ NextDay /\ UNCHANGED <<compVars, rankVars, evalVars, marketVars, trendVars, screenVars, configVars, backtestVars>>

\* One caller, one call after the other.
CacheSeqNext ==
    \/ Call("w1") /\ UNCHANGED <<compVars, rankVars, evalVars, marketVars, trendVars, screenVars, configVars, backtestVars>>
    \/ CheckCache("w1") /\ UNCHANGED <<compVars, rankVars, evalVars, marketVars, trendVars, screenVars, configVars, backtestVars>>
    \/ DownloadAndRank("w1") /\ UNCHANGED <<compVars, rankVars, evalVars, marketVars, trendVars, screenVars, configVars, backtestVars>>
    \/ SaveCache("w1") /\ UNCHANGED <<compVars, rankVars, evalVars, marketVars, trendVars, screenVars, configVars, backtestVars>>
    \/ LookupReturned("w1") /\ UNCHANGED <<compVars, rankVars, evalVars, marketVars, trendVars, screenVars, configVars, backtestVars>>
    \/ Finish("w1") /\ UNCHANGED <<compVars, rankVars, evalVars, marketVars, trendVars, screenVars, configVars, backtestVars>>
    \/ NextDay /\ UNCHANGED <<compVars, rankVars, evalVars, marketVars, trendVars, screenVars, configVars, backtestVars>>

\* The proximity ladder applied to two proximities in (0, 1], the lower one
\* first, by evaluate_n or by _evaluate_technical_at_date: ev_out carries the
\* lower one's sub-score, and the higher one's as its metric.
ProximityPercents == {1, 50, 74, 75, 80, 89, 90, 91, 95, 97, 98, 100}
ProximityLadders == {"evaluate_n", "_evaluate_technical_at_date"}

ScoreProximity ==
    /\ evaluator = None
    /\ \E lower \in ProximityPercents, higher \in ProximityPercents, ladder \in ProximityLadders :
         /\ lower < higher
         /\ ev_args' = [farther |-> Rat(lower, 100), closer |-> Rat(higher, 100),
                        ladder |-> ladder]
         /\ ev_out' = IF ladder = "evaluate_n"
                      THEN Outcome(ProximityScore(Rat(lower, 100)),
                                   MetricFloat(ProximityScore(Rat(higher, 100))),
                                   MetricAbsent)
                      ELSE Outcome(BacktestProximityScore(Rat(lower, 100)),
                                   MetricFloat(BacktestProximityScore(Rat(higher, 100))),
                                   MetricAbsent)
    /\ evaluator' = "proximity_score"

EvalNext ==
    \/ EvaluateC /\ UNCHANGED <<compVars, rankVars, cacheVars, marketVars, trendVars, screenVars, configVars, backtestVars>>
    \/ EvaluateA /\ UNCHANGED <<compVars, rankVars, cacheVars, marketVars, trendVars, screenVars, configVars, backtestVars>>
    \/ EvaluateN /\ UNCHANGED <<compVars, rankVars, cacheVars, marketVars, trendVars, screenVars, configVars, backtestVars>>
    \/ EvaluateS /\ UNCHANGED <<compVars, rankVars, cacheVars, marketVars, trendVars, screenVars, configVars, backtestVars>>
    \/ EvaluateL /\ UNCHANGED <<compVars, rankVars, cacheVars, marketVars, trendVars, screenVars, configVars, backtestVars>>
    \/ EvaluateI /\ UNCHANGED <<compVars, rankVars, cacheVars, marketVars, trendVars, screenVars, configVars, backtestVars>>
    \/ ScoreOwnershipLevel /\ UNCHANGED <<compVars, rankVars, cacheVars, marketVars, trendVars, screenVars, configVars, backtestVars>>
    \/ ScoreProximity /\ UNCHANGED <<compVars, rankVars, cacheVars, marketVars, trendVars, screenVars, configVars, backtestVars>>
    \/ NextEvaluation /\ UNCHANGED <<compVars, rankVars, cacheVars, marketVars, trendVars, screenVars, configVars, backtestVars>>

MarketNext ==
    \/ CountDistributionDays /\ UNCHANGED <<compVars, rankVars, cacheVars, evalVars, trendVars, screenVars, configVars, backtestVars>>
    \/ ScoreDistribution /\ UNCHANGED <<compVars, rankVars, cacheVars, evalVars, trendVars, screenVars, configVars, backtestVars>>

RegimeNext ==
    \/ DetectFollowThroughDay /\ UNCHANGED <<compVars, rankVars, cacheVars, evalVars, trendVars, screenVars, configVars, backtestVars>>
    \/ EvaluateM /\ UNCHANGED <<compVars, rankVars, cacheVars, evalVars, trendVars, screenVars, configVars, backtestVars>>
    \/ EvaluateMarketAtDate /\ UNCHANGED <<compVars, rankVars, cacheVars, evalVars, trendVars, screenVars, configVars, backtestVars>>
    \/ EvaluateMarketAtDateSameBars /\ UNCHANGED <<compVars, rankVars, cacheVars, evalVars, trendVars, screenVars, configVars, backtestVars>>

TrendNext ==
    \/ AnalyzeTrendStrength /\ UNCHANGED <<compVars, rankVars, cacheVars, evalVars, marketVars, screenVars, configVars, backtestVars>>
    \/ IdentifyPullbackEntries /\ UNCHANGED <<compVars, rankVars, cacheVars, evalVars, marketVars, screenVars, configVars, backtestVars>>
    \/ EnhancedIdentifyPullbackEntries /\ UNCHANGED <<compVars, rankVars, cacheVars, evalVars, marketVars, screenVars, configVars, backtestVars>>

InitComposite == CompInit /\ RankIdle /\ CacheIdle /\ EvalIdle /\ MarketIdle /\ TrendIdle /\ ScreenIdle /\ ConfigIdle /\ BacktestIdle
InitRank == RankInit /\ CompIdle /\ CacheIdle /\ EvalIdle /\ MarketIdle /\ TrendIdle /\ ScreenIdle /\ ConfigIdle /\ BacktestIdle
InitCache == CacheInit /\ CompIdle /\ RankIdle /\ EvalIdle /\ MarketIdle /\ TrendIdle /\ ScreenIdle /\ ConfigIdle /\ BacktestIdle
InitEvaluators == EvalInit /\ CompIdle /\ RankIdle /\ CacheIdle /\ MarketIdle /\ TrendIdle /\ ScreenIdle /\ ConfigIdle /\ BacktestIdle
InitMarket == MarketInit /\ CompIdle /\ RankIdle /\ CacheIdle /\ EvalIdle /\ TrendIdle /\ ScreenIdle /\ ConfigIdle /\ BacktestIdle
InitRegime == RegimeInit /\ CompIdle /\ RankIdle /\ CacheIdle /\ EvalIdle /\ TrendIdle /\ ScreenIdle /\ ConfigIdle /\ BacktestIdle
ScreenNext ==
    \/ ScreenSymbol /\ UNCHANGED <<compVars, rankVars, cacheVars, evalVars, marketVars, trendVars, configVars, backtestVars>>
    \/ ScreenReturn /\ UNCHANGED <<compVars, rankVars, cacheVars, evalVars, marketVars, trendVars, configVars, backtestVars>>

ConfigNext ==
    \/ ImportSettings /\ UNCHANGED <<compVars, rankVars, cacheVars, evalVars, marketVars, trendVars, screenVars, backtestVars>>
    \/ ScoreWithSettings /\ UNCHANGED <<compVars, rankVars, cacheVars, evalVars, marketVars, trendVars, screenVars, backtestVars>>

BacktestNext ==
    \/ \E run \in Runs : BacktestMarketAtDate(run) /\ UNCHANGED <<compVars, rankVars, cacheVars, evalVars, marketVars, trendVars, screenVars, configVars>>
    \/ \E run \in Runs : BacktestTickerAtDate(run) /\ UNCHANGED <<compVars, rankVars, cacheVars, evalVars, marketVars, trendVars, screenVars, configVars>>

InitTrend == TrendInit /\ CompIdle /\ RankIdle /\ CacheIdle /\ EvalIdle /\ MarketIdle /\ ScreenIdle /\ ConfigIdle /\ BacktestIdle
InitScreen == ScreenInit /\ CompIdle /\ RankIdle /\ CacheIdle /\ EvalIdle /\ MarketIdle /\ TrendIdle /\ ConfigIdle /\ BacktestIdle
InitConfig == ConfigInit /\ CompIdle /\ RankIdle /\ CacheIdle /\ EvalIdle /\ MarketIdle /\ TrendIdle /\ ScreenIdle /\ BacktestIdle
InitBacktest == BacktestInit /\ CompIdle /\ RankIdle /\ CacheIdle /\ EvalIdle /\ MarketIdle /\ TrendIdle /\ ScreenIdle /\ ConfigIdle

SpecComposite == InitComposite /\ [][CompNext]_vars

SpecRank == InitRank /\ [][RankNext]_vars

SpecCache == InitCache /\ [][CacheNext]_vars

SpecCacheSeq == InitCache /\ [][CacheSeqNext]_vars

SpecMarket == InitMarket /\ [][MarketNext]_vars

SpecRegime == InitRegime /\ [][RegimeNext]_vars

SpecTrend == InitTrend /\ [][TrendNext]_vars

SpecScreen == InitScreen /\ [][ScreenNext]_vars

SpecConfig == InitConfig /\ [][ConfigNext]_vars

SpecBacktest == InitBacktest /\ [][BacktestNext]_vars

SpecEvaluators == InitEvaluators /\ [][EvalNext]_vars

(***************************************************************************)
(* Claims: composite scorer                                              *)
(***************************************************************************)
Scored == scorer # None

\* C1: whatever sub-scores in [0,1] the scorer is given and whichever value
\* has_fundamentals takes, the composite of evaluate_canslim and of
\* _compute_canslim_score lies in [0,100].
C1_CompositeInRange ==
    Scored => RLe(RZero, total_score) /\ RLe(total_score, RInt(100))

\* The top of the range is reached on both paths.
C1_Witness ==
    /\ Scored
    /\ total_score = RInt(100)
    /\ scorer \in {"evaluate_canslim", "_compute_canslim_score"}

Weight(k) ==
    CASE k = "C" -> CANSLIM_WEIGHT_C
      [] k = "A" -> CANSLIM_WEIGHT_A
      [] k = "N" -> CANSLIM_WEIGHT_N
      [] k = "S" -> CANSLIM_WEIGHT_S
      [] k = "L" -> CANSLIM_WEIGHT_L
      [] k = "I" -> CANSLIM_WEIGHT_I
      [] k = "M" -> CANSLIM_WEIGHT_M

RECURSIVE WeightedSum(_, _)
WeightedSum(S, sc) ==
    IF S = {} THEN RZero
    ELSE LET k == CHOOSE x \in S : TRUE
         IN  RAdd(RMul(Weight(k), sc[k]), WeightedSum(S \ {k}, sc))

\* 100 times the weighted mean of the components in avail, the weights
\* renormalised over avail.
ReweightedOver(avail, sc) ==
    RMul(RInt(100),
         RDiv(WeightedSum(avail, sc), WeightedSum(avail, [k \in Components |-> ROne])))

Available ==
    Components \ ((IF current_growth = None THEN {"C"} ELSE {})
                  \cup (IF annual_growth = None THEN {"A"} ELSE {}))

ScoredFromEvaluators == scorer \in {"evaluate_canslim", "run_backtest"}

\* C5 as stated: whenever C or A is unavailable, the composite is the
\* reweighting over the available components.
C5_Original ==
    (ScoredFromEvaluators /\ (current_growth = None \/ annual_growth = None)) =>
        total_score = ReweightedOver(Available, scores)

\* C5 as amended: when both C and A are unavailable the composite is the
\* reweighting over N, S, L, I, M; when at least one of them is available
\* the full seven-weight formula is used, an unavailable one entering as its
\* 0.0 default at its full-path weight.
C5_ReweightOnlyWhenBothMissing ==
    ScoredFromEvaluators =>
        IF current_growth = None /\ annual_growth = None
        THEN /\ ~has_fundamentals
             /\ total_score = ReweightedOver(Components \ {"C", "A"}, scores)
        ELSE /\ has_fundamentals
             /\ total_score = ReweightedOver(Components, scores)

\* Both growths missing, scored by evaluate_canslim on the reweighted path.
C5_Witness ==
    /\ scorer = "evaluate_canslim"
    /\ current_growth = None
    /\ annual_growth = None
    /\ total_score = RInt(100)

(***************************************************************************)
(* Claims: relative-strength ranking                                       *)
(***************************************************************************)
InRsRange(v) == RLe(RInt(1), v) /\ RLe(v, RInt(99))

\* The symbol has a row in the ranked table the screener looks into.
InSnapshot(t) ==
    \E i \in 1..Len(rs_scores_df.rows) : rs_scores_df.rows[i].Ticker = t

\* The weighted performance of a symbol over the bars up to eval_date.
PerfAtDate(t) ==
    LET cols == {c \in 1..Len(all_closes) :
                    /\ all_closes[c].Ticker = t
                    /\ ~AllNaN(SubSeq(all_closes[c].data, 1, eval_date))}
    IN  IF cols = {} THEN NonePerf
        ELSE calculate_weighted_performance(
                 DropNa(SubSeq(all_closes[CHOOSE c \in cols : TRUE].data, 1, eval_date)))

UniverseAtDate ==
    {all_closes[c].Ticker : c \in 1..Len(all_closes)}

NumRankedAtDate == Cardinality({t \in UniverseAtDate : IsPerf(PerfAtDate(t))})

AskedLive(t) == rs_momentum[t] # NotAsked
AskedAtDate(t) == rs_at_date[t] # NotAsked

\* C2 as stated: a lookup in an RS snapshot never raises, gives a value in [1,99] for a symbol
\* that is ranked (has a weighted performance in the universe) and exactly 0
\* for a symbol absent from the ranked snapshot.
C2_Original ==
    \A t \in Asked :
        /\ (AskedLive(t) /\ rs_scores_df.kind = "DataFrame") =>
             /\ ~rs_momentum[t].raised
             /\ IF InSnapshot(t) THEN InRsRange(rs_momentum[t].value)
                ELSE rs_momentum[t].value = RZero
        /\ AskedAtDate(t) =>
             /\ ~rs_at_date[t].raised
             /\ IF IsPerf(PerfAtDate(t)) THEN InRsRange(rs_at_date[t].value)
                ELSE rs_at_date[t].value = RZero

\* C2 as amended: as stated for calculate_rs_momentum; _calculate_rs_at_date
\* gives a value in [1,99] only when the symbol has a weighted performance
\* and at least 10 symbols of the universe have one, and exactly 0 otherwise.
C2_RsRangeOrZero ==
    \A t \in Asked :
        /\ (AskedLive(t) /\ rs_scores_df.kind = "DataFrame") =>
             /\ ~rs_momentum[t].raised
             /\ IF InSnapshot(t) THEN InRsRange(rs_momentum[t].value)
                ELSE rs_momentum[t].value = RZero
        /\ AskedAtDate(t) =>
             /\ ~rs_at_date[t].raised
             /\ IF IsPerf(PerfAtDate(t)) /\ NumRankedAtDate >= 10
                THEN InRsRange(rs_at_date[t].value)
                ELSE rs_at_date[t].value = RZero

\* The backtest ranked one tracked symbol at the top, gave 0 to the other,
\* which has a column but too little history, and 0 to the absent symbol.
C2_Witness ==
    /\ driver = "run_backtest"
    /\ next_symbol > Len(Symbols)
    /\ rs_at_date[TrackedA] = Returned(RInt(99))
    /\ PerfAtDate(TrackedB) = NonePerf
    /\ TrackedB \in UniverseAtDate
    /\ rs_at_date[TrackedB] = Returned(RZero)
    /\ rs_at_date[Untracked] = Returned(RZero)

\* C3: within one ranked universe at one date, a symbol with the strictly
\* greater weighted performance never has the smaller RS score.
C3_RankMonotonic ==
    /\ \A i, j \in 1..Len(rs_scores_df.rows) :
          RLt(rs_scores_df.rows[j].Weighted_Perf, rs_scores_df.rows[i].Weighted_Perf)
            => RLe(rs_scores_df.rows[j].RS_Score, rs_scores_df.rows[i].RS_Score)
    /\ \A a, b \in Asked :
          /\ (AskedLive(a) /\ AskedLive(b) /\ InSnapshot(a) /\ InSnapshot(b)) =>
                LET ra == CHOOSE i \in 1..Len(rs_scores_df.rows) :
                              rs_scores_df.rows[i].Ticker = a
                    rb == CHOOSE i \in 1..Len(rs_scores_df.rows) :
                              rs_scores_df.rows[i].Ticker = b
                IN  RLt(rs_scores_df.rows[rb].Weighted_Perf,
                        rs_scores_df.rows[ra].Weighted_Perf)
                      => RLe(rs_momentum[b].value, rs_momentum[a].value)
          /\ (AskedAtDate(a) /\ AskedAtDate(b)
                /\ IsPerf(PerfAtDate(a)) /\ IsPerf(PerfAtDate(b))) =>
                (RLt(PerfAtDate(b), PerfAtDate(a))
                   => RLe(rs_at_date[b].value, rs_at_date[a].value))

\* Both tracked symbols ranked by the screener, the stronger one strictly
\* higher, and the table holding tied reference symbols.
C3_Witness ==
    /\ driver = "screen_stocks_canslim"
    /\ AskedLive(TrackedA) /\ AskedLive(TrackedB)
    /\ InSnapshot(TrackedA) /\ InSnapshot(TrackedB)
    /\ RLt(rs_momentum[TrackedB].value, rs_momentum[TrackedA].value)
    /\ Len(rs_scores_df.rows) >= 10
    /\ \E i, j \in 1..Len(rs_scores_df.rows) :
          i # j /\ rs_scores_df.rows[i].RS_Score = rs_scores_df.rows[j].RS_Score

(***************************************************************************)
(* Claims about the daily RS cache.                                        *)
(***************************************************************************)
Days == 1..MaxDay
Computing(p) == pc[p] \in {"download", "save"}

\* C7: every finished call of calculate_rs_scores_for_tickers has returned an
\* RS snapshot (a DataFrame: the cached table on a hit, the ranked table on a
\* miss), and the RS lookup on the returned value does not raise.
C7_Original ==
    \A p \in Workers :
        pc[p] = "done" =>
            /\ ret[p].kind = "DataFrame"
            /\ ~lookup[p].raised

\* C8: two requests of the same date that both found no cached snapshot are
\* never both past the cache check doing the universe-wide download and
\* ranking, and the date's snapshot is ranked at most once.
C8_Original ==
    \A p, q \in Workers :
        (p # q /\ cache_check[p] = "absent" /\ cache_check[q] = "absent"
              /\ called_on[p] = called_on[q])
            => /\ ~(Computing(p) /\ Computing(q))
               /\ rankings[called_on[p]] <= 1

\* C9 as stated: for any sequence of calls the snapshot is ranked at most
\* once per date, and a call never returns a snapshot of another date.
C9_Original ==
    /\ \A d \in Days : rankings[d] <= 1
    /\ \A p \in Workers :
           (pc[p] = "done" /\ cache_check[p] = "hit")
               => cache_file.mtime = called_on[p]

\* C9, amended: for any sequence of calls, a date's snapshot is ranked at
\* most once more than the number of cache reads and writes that failed on
\* that date, and a call that returns the cached snapshot returns the table
\* saved on the date of the call, never one saved on another date.
C9_OncePerDateUnlessCacheFails ==
    /\ \A d \in Days : rankings[d] <= 1 + cache_failures[d]
    /\ \A p \in Workers :
           (pc[p] = "done" /\ cache_check[p] = "hit")
               => /\ cache_file.mtime = called_on[p]
                  /\ ret[p] = DataFrame(cache_file.rows)

\* Ranked and saved on the first day, found stale and ranked again on the
\* second day, then served from the cache on the second day.
C9_Witness ==
    /\ rankings[1] = 1
    /\ rankings[2] = 1
    /\ \A d \in Days : cache_failures[d] = 0
    /\ pc["w1"] = "done"
    /\ cache_check["w1"] = "hit"
    /\ called_on["w1"] = 2
    /\ ret["w1"].rows # <<>>

(***************************************************************************)
(* Claims about the component evaluators.                                  *)
(***************************************************************************)
\* The empty or missing input of each evaluator: an empty statement frame,
\* an empty price history, an RS table without the symbol, ownership None.
OnEmptyInput ==
    CASE evaluator \in {"evaluate_c", "evaluate_a", "evaluate_n"} ->
             FrameEmpty(ev_args.frame)
      [] evaluator = "evaluate_s" -> ev_args.price_history.bars = <<>>
      [] evaluator = "evaluate_l" ->
             /\ ev_args.table.kind = "DataFrame"
             /\ \A i \in 1..Len(ev_args.table.rows) :
                    ev_args.table.rows[i].Ticker # ev_args.symbol
      [] evaluator = "evaluate_i" -> ev_args.held = Missing
      [] OTHER -> FALSE

\* C6: every component evaluator called with its empty or missing input does
\* not raise and returns its default score with None as raw metric
\* (evaluate_c (0.0, None), evaluate_a (0.0, None, None), evaluate_l score 0.0,
\* evaluate_i the bare score 0.1).
C6_Original ==
    OnEmptyInput =>
        /\ ~ev_out.raised
        /\ evaluator # "evaluate_i" => ev_out.metric = MetricNone
        /\ evaluator \in {"evaluate_c", "evaluate_l"} => ev_out.score = RZero
        /\ evaluator = "evaluate_a" => ev_out.score = RZero /\ ev_out.roe = MetricNone
        /\ evaluator = "evaluate_i" => ev_out.score = I_NO_DATA_SCORE

(***************************************************************************)
(* Claims about the distribution-day count.                                *)
(***************************************************************************)
\* The bars among the last 25 whose close is down at least 0.2% from the
\* previous close on volume strictly above the previous bar's.
DownOnHigherVolume ==
    {i \in 2..Len(benchmark) :
        /\ i > Len(benchmark) - 25
        /\ 1000 * (benchmark[i - 1].Close - benchmark[i].Close)
               >= 2 * benchmark[i - 1].Close
        /\ benchmark[i].Volume > benchmark[i - 1].Volume}

\* C10: distribution_days is the number of bars among the last 25 that close
\* at least 0.2% below the previous close on volume strictly greater than the
\* previous bar's, and the distribution score is max(1 - count/5, 0): 6 such
\* days give distribution_days 6 and score 0.
C10_DistributionDays ==
    /\ market_step \in {"counted", "scored"}
           => distribution_days = Cardinality(DownOnHigherVolume)
    /\ market_step = "scored"
           => dist_score = IF Cardinality(DownOnHigherVolume) >= 5 THEN RZero
                           ELSE Rat(5 - Cardinality(DownOnHigherVolume), 5)

\* Six distribution days in the window, the oldest on the window's first
\* bar: counted 6, scored 0.
C10_Witness ==
    /\ market_step = "scored"
    /\ distribution_days = 6
    /\ dist_score = RZero
    /\ Len(benchmark) - 24 \in DownOnHigherVolume

(***************************************************************************)
(* Claims about the market regime.                                         *)
(***************************************************************************)
\* The bars the regime function was given: those dated on or before the
\* evaluation date.
EvaluatedBars == SubSeq(benchmark, 1, market_asof)

UpDay(bars, i) == i >= 2 /\ bars[i].Close > bars[i - 1].Close

\* Bars i-3 .. i lie in the last-30-bar window, each closes above the bar
\* before it, and bar i gains at least 1.5% on volume above bar i-1's.
RallyConfirmedAt(bars, i) ==
    /\ i - 3 >= 1
    /\ i - 3 > Len(bars) - 30
    /\ \A j \in (i - 3)..i : UpDay(bars, j)
    /\ 1000 * (bars[i].Close - bars[i - 1].Close) >= 15 * bars[i - 1].Close
    /\ bars[i].Volume > bars[i - 1].Volume

DetectorRan ==
    \/ regime_caller = "_detect_follow_through_day"
    \/ regime_caller \in {"evaluate_m", "_evaluate_market_at_date"}
           /\ Len(EvaluatedBars) >= 50

\* C11: for a benchmark history of 30 bars or more whose last-30-bar window
\* contains 4 consecutive up-days, the 4th gaining at least 1.5% on volume
\* greater than the previous day's, the follow-through detector returns True.
C11_Original ==
    (/\ DetectorRan
     /\ Len(EvaluatedBars) >= 30
     /\ \E i \in 1..Len(EvaluatedBars) : RallyConfirmedAt(EvaluatedBars, i))
        => market_trend.follow_through

\* What the detector does deliver: such a rally is found when all four
\* up-days are among the last 29 bars, the bars whose change the loop
\* computes.
FollowThroughAmongComparedBars ==
    (/\ DetectorRan
     /\ Len(EvaluatedBars) >= 30
     /\ \E i \in 1..Len(EvaluatedBars) :
            RallyConfirmedAt(EvaluatedBars, i) /\ i - 3 > Len(EvaluatedBars) - 29)
        => market_trend.follow_through

\* The rally that is missed: its first up-day is the first bar of the
\* 30-bar window.
RallyAtWindowStart ==
    /\ regime_caller = "evaluate_m"
    /\ Len(benchmark) = 50
    /\ RallyConfirmedAt(benchmark, 24)
    /\ ~market_trend.follow_through

RegimeEvaluated == regime_caller \in {"evaluate_m", "_evaluate_market_at_date"}

\* C12: when the benchmark history available at the evaluation date is empty
\* or has fewer than 50 bars, the regime result is the fixed snapshot: score
\* 0.4, is_bullish False, distribution_days 0, follow_through False, no
\* latest close, no EMA indicators, and no EMA was computed.
C12_ShortHistoryFallback ==
    (RegimeEvaluated /\ Len(EvaluatedBars) < 50)
        => /\ market_trend.score = Rat(4, 10)
           /\ market_trend.is_bullish = FALSE
           /\ market_trend.distribution_days = 0
           /\ market_trend.follow_through = FALSE
           /\ market_trend.latest_close = <<>>
           /\ market_trend.indicators = {}
           /\ ewm_calls = 0
           /\ ewm_out = NoEwm

\* evaluate_m on 49 bars that hold a confirmed rally well inside the last
\* 29 bars: the fixed snapshot all the same.
C12_Witness ==
    /\ regime_caller = "evaluate_m"
    /\ Len(benchmark) = 49
    /\ \E i \in 30..49 : RallyConfirmedAt(benchmark, i)
    /\ market_trend.score = Rat(4, 10)
    /\ ~market_trend.follow_through
    /\ ewm_calls = 0

\* The weights, in hundredths, of the EMA conditions that hold for the
\* evaluated bars and the EMAs the library gave.
TrendHundredths ==
    LET close == EvaluatedBars[Len(EvaluatedBars)].Close
        e21 == ewm_out.ema_21[1]
        e50 == ewm_out.ema_50[1]
        e200 == ewm_out.ema_200[1]
        e50_before == ewm_out.ema_50_lookback[1]
    IN  (IF close > e200 THEN 45 ELSE 0)
        + (IF e21 > e50 /\ e50 > e200 THEN 25 ELSE 0)
        + (IF e50 > e50_before THEN 20 ELSE 0)
        + (IF close > e21 THEN 10 ELSE 0)

\* 10000 x (0.30 x dist + 0.15 x ftd + 0.55 x trend), with dist =
\* max(1 - days/5, 0), from the result's own count and flag.
ExpectedTenThousandths ==
    LET left == IF market_trend.distribution_days >= 5 THEN 0
                ELSE 5 - market_trend.distribution_days
    IN  600 * left
        + (IF market_trend.follow_through THEN 1500 ELSE 0)
        + 55 * TrendHundredths

\* C13: every MarketTrend produced has its score in [0,1]; with at least 50
\* bars the score is 0.30 x dist + 0.15 x ftd + (1 - 0.30 - 0.15) x trend
\* clipped to [0,1]; and is_bullish holds exactly when the score is at least
\* 0.6, the fewer-than-50-bars fallback included.
C13_RegimeScore ==
    RegimeEvaluated =>
        /\ RLe(RZero, market_trend.score) /\ RLe(market_trend.score, ROne)
        /\ Len(EvaluatedBars) >= 50 =>
               market_trend.score =
                   Rat(IF ExpectedTenThousandths > 10000 THEN 10000
                       ELSE ExpectedTenThousandths, 10000)
        /\ market_trend.is_bullish <=> 10 * market_trend.score[1] >= 6 * market_trend.score[2]

\* A history of 50 bars or more with a follow-through day, one distribution
\* day and every EMA condition but the rising 50-EMA: 0.24 + 0.15 + 0.44 =
\* 0.83, bullish.
C13_Witness ==
    /\ RegimeEvaluated
    /\ Len(EvaluatedBars) >= 50
    /\ market_trend.follow_through
    /\ market_trend.distribution_days = 1
    /\ TrendHundredths = 80
    /\ market_trend.score = Rat(83, 100)
    /\ market_trend.is_bullish

\* A regime just under the threshold, 0.30 + 0 + 0.55 x 0.45 = 0.5475: not
\* bullish.
RegimeJustBelowThreshold ==
    /\ RegimeEvaluated
    /\ market_trend.score = Rat(5475, 10000)
    /\ ~market_trend.is_bullish

(***************************************************************************)
(* Claims about the trend qualification and the pullback entries.          *)
(***************************************************************************)
\* The trailing 60-bar window of the analysed frame.
TrendWindow == SubSeq(trend_history, Len(trend_history) - 59, Len(trend_history))

BarsAbove8 == Cardinality({i \in 1..60 : TrendWindow[i].Close > TrendWindow[i].EMA_8})
BarsAbove21 == Cardinality({i \in 1..60 : TrendWindow[i].Close > TrendWindow[i].EMA_21})

\* The highest high of the q-th quarter of the window.
QuarterHighs(q) == {TrendWindow[i].High : i \in (15 * q - 14)..(15 * q)} \ {NaN}
QuarterLows(q) == {TrendWindow[i].Low : i \in (15 * q - 14)..(15 * q)} \ {NaN}
TopOf(set) == CHOOSE h \in set : \A x \in set : x <= h
BottomOf(set) == CHOOSE l \in set : \A x \in set : l <= x

\* Higher highs: the quarter highs do not fall over the first three
\* quarters; higher lows likewise.
WindowHigherHighs ==
    /\ \A q \in 1..3 : QuarterHighs(q) # {}
    /\ TopOf(QuarterHighs(1)) <= TopOf(QuarterHighs(2))
    /\ TopOf(QuarterHighs(2)) <= TopOf(QuarterHighs(3))
WindowHigherLows ==
    /\ \A q \in 1..3 : QuarterLows(q) # {}
    /\ BottomOf(QuarterLows(1)) <= BottomOf(QuarterLows(2))
    /\ BottomOf(QuarterLows(2)) <= BottomOf(QuarterLows(3))

TrendAnalysed == trend_called /\ Len(trend_history) >= 60

\* C14 as stated: is_strong_trend is True exactly when (at least 70% of the
\* 60 bars are above the 8-EMA or at least 80% above the 21-EMA) and
\* (higher-highs or higher-lows) holds.
C14_Original ==
    TrendAnalysed =>
        (trend_out.is_strong_trend <=>
            /\ 100 * BarsAbove8 >= 70 * 60 \/ 100 * BarsAbove21 >= 80 * 60
            /\ WindowHigherHighs \/ WindowHigherLows)

\* C14: analyze_trend_strength over the trailing 60-bar window returns
\* is_strong_trend True exactly when (more than 70% of the bars are above
\* the 8-EMA or more than 80% above the 21-EMA) and (higher-highs or
\* higher-lows) holds; a window with every bar above the 8-EMA and rising
\* highs yields is_strong_trend True with ema_8_adherence 100.
C14_StrongTrend ==
    TrendAnalysed =>
        /\ trend_out.is_strong_trend <=>
               /\ 100 * BarsAbove8 > 70 * 60 \/ 100 * BarsAbove21 > 80 * 60
               /\ WindowHigherHighs \/ WindowHigherLows
        /\ (BarsAbove8 = 60 /\ WindowHigherHighs)
               => trend_out.is_strong_trend /\ trend_out.ema_8_adherence = RInt(100)
        /\ trend_out.ema_8_adherence = Rat(100 * BarsAbove8, 60)
        /\ trend_out.ema_21_adherence = Rat(100 * BarsAbove21, 60)

\* Every bar above the 8-EMA, none above the 21-EMA, highs rising and lows
\* falling: a strong trend with ema_8_adherence 100.
C14_Witness ==
    /\ TrendAnalysed
    /\ BarsAbove8 = 60
    /\ BarsAbove21 = 0
    /\ WindowHigherHighs /\ ~WindowHigherLows
    /\ trend_out.is_strong_trend
    /\ trend_out.ema_8_adherence = RInt(100)

\* Exactly 42 of 60 bars (70%) above the 8-EMA, with higher highs: not a
\* strong trend.
ExactlySeventyPercent ==
    /\ TrendAnalysed
    /\ BarsAbove8 = 42
    /\ BarsAbove21 <= 48
    /\ WindowHigherHighs
    /\ ~trend_out.is_strong_trend

PullbackCalled == pullback_call.module = "core.pullback_entries"

\* C19: identify_pullback_entries called with only a price frame (no
\* overrides) applies its defaults and returns a list of signals, possibly
\* empty, rather than failing.
C19_Original ==
    (PullbackCalled /\ pullback_args = NoOverrides)
        => pullback_out.kind = "returned"

\* What the call does without overrides: it raises AttributeError whatever
\* the frame; it returns a list only when all six arguments are given.
PullbackNeedsEveryOverride ==
    PullbackCalled =>
        (pullback_out.kind = "returned" <=> pullback_args = AllOverrides)

\* With the six documented values given, a frame of 60 bars yields signals.
PullbackSignalsFound ==
    /\ pullback_args = AllOverrides
    /\ pullback_out.kind = "returned"
    /\ pullback_out.signals # <<>>

(***************************************************************************)
(* Claims about the screener                                               *)
(***************************************************************************)
TimesIn(seq, x) == Cardinality({i \in 1..Len(seq) : seq[i] = x})

\* C15: in screen_stocks_canslim an exception raised while one symbol is
\* evaluated never leaves the loop and gives that symbol no entry: the
\* symbols are evaluated one after the other, all of them by the time the
\* function returns, and the results hold exactly the evaluations that
\* returned an entry.
C15_FailuresIsolated ==
    /\ scr_pc # "aborted"
    /\ Len(scr_log) = scr_index - 1
    /\ Len(scr_log) <= Len(scr_symbols)
    /\ \A i \in 1..Len(scr_log) : scr_log[i].symbol = scr_symbols[i]
    /\ scr_pc = "returned" => Len(scr_log) = Len(scr_symbols)
    /\ \A i \in 1..Len(scr_results) : scr_results[i].kind = "entry"
    /\ \A i \in 1..Len(scr_log) :
           TimesIn(scr_results, scr_log[i]) =
               IF scr_log[i].kind = "entry" THEN TimesIn(scr_log, scr_log[i]) ELSE 0

\* The screener returned after an evaluation raised and a later symbol was
\* evaluated to the end.
C15_Witness ==
    /\ scr_pc = "returned"
    /\ \E i, j \in 1..Len(scr_log) :
           /\ i < j
           /\ scr_log[i].kind = "raised"
           /\ scr_log[j].kind = "None"
           /\ scr_log[j].why = "trend"

\* A symbol passed the trend stage and reached the pullback scan.
PullbackStageRaised ==
    \E i \in 1..Len(scr_log) : scr_log[i].why = "AttributeError"

\* An evaluation returned an entry. No run reaches it: the pullback scan is
\* called without overrides and raises for every symbol that gets to it.
EntryReturned ==
    \E i \in 1..Len(scr_log) : scr_log[i].kind = "entry"

(***************************************************************************)
(* Claims about the configuration                                          *)
(***************************************************************************)
WeightSum(cfg) ==
    RAdd(RAdd(RAdd(RAdd(RAdd(RAdd(cfg.CANSLIM_WEIGHT_C, cfg.CANSLIM_WEIGHT_A),
        cfg.CANSLIM_WEIGHT_N), cfg.CANSLIM_WEIGHT_S), cfg.CANSLIM_WEIGHT_L),
        cfg.CANSLIM_WEIGHT_I), cfg.CANSLIM_WEIGHT_M)

ValidConfiguration(cfg) ==
    /\ WeightSum(cfg) = ROne
    /\ RLt(RZero, cfg.C_GROWTH_TARGET)

\* C16: a configuration whose composite weights do not sum to 1, or whose
\* targets are not positive, is rejected when it is loaded: it is never the
\* imported module, its import raises, and no score is computed with it.
C16_Original ==
    /\ \A cfg \in settings : ValidConfiguration(cfg)
    /\ ~ValidConfiguration(settings_file) /\ settings # {} => config_error
    /\ config_total # Missing => ValidConfiguration(settings_file)

\* A composite above 100 computed with weights that sum to 1.1.
ScoredWithHeavyWeights ==
    /\ config_total # Missing
    /\ WeightSum(settings_file) = Rat(11, 10)
    /\ RLt(RInt(100), config_total)

(***************************************************************************)
(* Claims about the backtest                                               *)
(***************************************************************************)
MarketEvaluated(run) == bt_sliced[run] # <<>>

\* C17: the M, RS, L, N and S values run_backtest records for (ticker,
\* eval_date) depend only on the bars dated on or before eval_date: two runs
\* whose price data agree up to eval_date and differ after it get the same
\* market evaluation and record the same values.
C17_NoLookAhead ==
    \A r1 \in Runs, r2 \in Runs :
        /\ MarketEvaluated(r1) /\ MarketEvaluated(r2) => bt_market[r1] = bt_market[r2]
        /\ bt_record[r1] # NoRecordYet /\ bt_record[r2] # NoRecordYet
               => bt_record[r1] = bt_record[r2]

\* Both runs recorded a ranked, scored ticker under a computed market score,
\* and their data differ after the evaluation date.
C17_Witness ==
    /\ bt_future["first"] = "surge"
    /\ bt_future["second"] = "crash"
    /\ \A r \in Runs :
           /\ bt_record[r].kind = "recorded"
           /\ RLt(RZero, bt_record[r].rs_score)
           /\ RLt(RZero, bt_record[r].s_score)
           /\ bt_ewm[r] # NoEwm

\* C20: wherever a composite is built, the L sub-score is (RS / 100) squared,
\* clipped to [0, 1]: here in the record run_backtest builds.
C20_Original ==
    \A r \in Runs :
        bt_record[r].kind = "recorded"
            => bt_record[r].l_score = BacktestLScore_Squared(bt_record[r].rs_score)

\* run_backtest recorded a ranked ticker with L = RS / 100.
LinearLeaderScore ==
    \E r \in Runs :
        /\ bt_record[r].kind = "recorded"
        /\ RLt(RZero, bt_record[r].rs_score)
        /\ bt_record[r].l_score = RDiv(bt_record[r].rs_score, RInt(100))
        /\ bt_record[r].l_score # BacktestLScore_Squared(bt_record[r].rs_score)

\* evaluate_l, the path of evaluate_canslim, does square: its score is
\* (rs_score / 100) squared, clipped to [0, 1].
EvaluateLPowerCurve ==
    evaluator = "evaluate_l" /\ ~ev_out.raised
        => ev_out.score = BacktestLScore_Squared(ev_out.metric.value)

(***************************************************************************)
(* Claims about series with too little history                             *)
(***************************************************************************)
RealBars(data) == Len(DropNa(data))
HasShortHistory(col) == RealBars(col.data) < 4 * days_per_q
WithoutShortHistory(frame) == SelectSeq(frame, LAMBDA col : ~HasShortHistory(col))
TickersOf(table) == {table.rows[i].Ticker : i \in 1..Len(table.rows)}

\* C18: a price series with fewer than 4 x 65 bars gets no weighted
\* performance and is left out of the ranked snapshot, and the other
\* symbols' percentiles are those of the universe ranked without it; here
\* for the table calculate_rs_scores_for_tickers ranks.
C18_Original ==
    rs_scores_df.kind = "DataFrame" /\ rs_scores_df.rows # <<>> =>
        /\ \A c \in 1..Len(all_closes) :
               HasShortHistory(all_closes[c]) => all_closes[c].Ticker \notin TickersOf(rs_scores_df)
        /\ rs_scores_df = RankDownloaded(WithoutShortHistory(all_closes))

\* The screener's table ranks a symbol that has 259 bars.
HaltedSeriesRanked ==
    /\ rs_scores_df.kind = "DataFrame"
    /\ \E c \in 1..Len(all_closes) :
           /\ RealBars(all_closes[c].data) = 4 * days_per_q - 1
           /\ all_closes[c].Ticker \in TickersOf(rs_scores_df)

\* The backtest's ranking does leave short series out: a symbol whose column
\* has fewer than 4 x 65 bars up to the evaluation date gets 0.0, and every
\* symbol gets what it gets in the universe without the short columns.
ShortHistoryLeftOutAtDate ==
    \A t \in Asked :
        rs_at_date[t] # NotAsked =>
            LET sliced == SliceTo(all_closes, eval_date)
            IN  /\ \A c \in 1..Len(sliced) :
                       sliced[c].Ticker = t /\ HasShortHistory(sliced[c])
                           => rs_at_date[t] = Returned(RZero)
                /\ rs_at_date[t] =
                       calculate_rs_at_date(WithoutShortHistory(sliced), t, eval_date)

\* The backtest asked for a symbol in a universe of ten ranked columns and a
\* short one.
ShortHistoryAtDateCase ==
    /\ \E c \in 1..Len(all_closes) :
           /\ all_closes[c].Ticker = TrackedB
           /\ HasShortHistory(SliceTo(all_closes, eval_date)[c])
           /\ ~AllNaN(all_closes[c].data)
    /\ rs_at_date[TrackedA] # NotAsked
    /\ RLt(RZero, rs_at_date[TrackedA].value)

(***************************************************************************)
(* Claims about the rally counter of the follow-through scan.              *)
(***************************************************************************)
\* The first bar of the last-30-bar window of a history of 30 bars or more.
WindowStart(bars) == Len(bars) - 29

\* Bar i closes more than 1% below the bar before it.
DeepDecline(bars, i) ==
    i >= 2 /\ 100 * (bars[i].Close - bars[i - 1].Close) < 0 - bars[i - 1].Close

\* The latest bar among first..i that closes more than 1% lower, or the bar
\* before first when there is none.
LastResetBefore(bars, first, i) ==
    LET resets == {j \in first..i : DeepDecline(bars, j)} \cup {first - 1}
    IN  CHOOSE j \in resets : \A k \in resets : k <= j

\* The rally counter on bar i of a scan whose up-days and declines are
\* those of bars first..i: 1 on the first up-day, one more on each later
\* up-day, 0 after a decline of more than 1%, unchanged by any other bar.
RallyCounter(bars, first, i) ==
    Cardinality({j \in first..i : j > LastResetBefore(bars, first, i) /\ UpDay(bars, j)})

\* Bar i is an up-day with a counter of 4 or more, a gain of at least 1.5%
\* and a volume above the previous bar's.
ConfirmsRally(bars, first, i) ==
    /\ UpDay(bars, i)
    /\ RallyCounter(bars, first, i) >= 4
    /\ 1000 * (bars[i].Close - bars[i - 1].Close) >= 15 * bars[i - 1].Close
    /\ bars[i].Volume > bars[i - 1].Volume

\* C21: in the follow-through scan over the last 30 bars the rally counter
\* is 1 on the first up-day, one more on each later up-day, reset to 0 only
\* by a decline of more than 1% and unchanged by flat days and declines of at
\* most 1%; follow_through is true if and only if some up-day of the window
\* has a counter of 4 or more, a gain of at least 1.5% and a volume above the
\* previous bar's.
C21_Original ==
    (DetectorRan /\ Len(EvaluatedBars) >= 30)
        => (market_trend.follow_through
              <=> \E i \in WindowStart(EvaluatedBars)..Len(EvaluatedBars) :
                     ConfirmsRally(EvaluatedBars, WindowStart(EvaluatedBars), i))

\* What the scan does deliver: the same statement for the counter run over
\* the last 29 bars, the bars whose daily change the loop computes.
RallyCounterOverComparedBars ==
    (DetectorRan /\ Len(EvaluatedBars) >= 30)
        => (market_trend.follow_through
              <=> \E i \in (WindowStart(EvaluatedBars) + 1)..Len(EvaluatedBars) :
                     ConfirmsRally(EvaluatedBars, WindowStart(EvaluatedBars) + 1, i))

\* The window's first bar is an up-day that the counter of the whole window
\* includes and the scan does not: the fourth up-day confirms, the result is
\* False.
UpDayOnWindowStart ==
    /\ DetectorRan
    /\ Len(EvaluatedBars) >= 30
    /\ UpDay(EvaluatedBars, WindowStart(EvaluatedBars))
    /\ ConfirmsRally(EvaluatedBars, WindowStart(EvaluatedBars),
                     WindowStart(EvaluatedBars) + 3)
    /\ ~market_trend.follow_through

\* A rally that runs through a bar closing exactly 1% lower: the counter
\* keeps its 2, reaches 4 on the last bar and the result is True.
RallyThroughMildDecline ==
    /\ DetectorRan
    /\ Len(EvaluatedBars) >= 30
    /\ 100 * (EvaluatedBars[Len(EvaluatedBars) - 2].Close
                - EvaluatedBars[Len(EvaluatedBars) - 3].Close)
           = 0 - EvaluatedBars[Len(EvaluatedBars) - 3].Close
    /\ RallyCounter(EvaluatedBars, WindowStart(EvaluatedBars) + 1, Len(EvaluatedBars)) = 4
    /\ market_trend.follow_through

\* The same rally broken by a bar closing more than 1% lower: the counter
\* restarts, is 2 on the last bar and the result is False.
RallyResetByDeepDecline ==
    /\ DetectorRan
    /\ Len(EvaluatedBars) >= 30
    /\ DeepDecline(EvaluatedBars, Len(EvaluatedBars) - 2)
    /\ RallyCounter(EvaluatedBars, WindowStart(EvaluatedBars) + 1, Len(EvaluatedBars)) = 2
    /\ EvaluatedBars[Len(EvaluatedBars)].Volume > EvaluatedBars[Len(EvaluatedBars) - 1].Volume
    /\ 1000 * (EvaluatedBars[Len(EvaluatedBars)].Close
                 - EvaluatedBars[Len(EvaluatedBars) - 1].Close)
           >= 15 * EvaluatedBars[Len(EvaluatedBars) - 1].Close
    /\ ~market_trend.follow_through

(***************************************************************************)
(* Claims about the higher-highs / higher-lows test.                       *)
(***************************************************************************)
\* The highest High and the lowest Low of quarter q (1..4) of the 60-bar
\* window, NaN when the quarter has none.
QuarterHigh(q) == SegmentHigh(SubSeq(TrendWindow, 15 * (q - 1) + 1, 15 * q))
QuarterLow(q) == SegmentLow(SubSeq(TrendWindow, 15 * (q - 1) + 1, 15 * q))

\* The three values from quarter q on are known and non-decreasing.
NonDecreasingFrom(q, level(_)) ==
    /\ NaN \notin {level(q), level(q + 1), level(q + 2)}
    /\ level(q) <= level(q + 1)
    /\ level(q + 1) <= level(q + 2)

\* C22 as stated: with the 60-bar window split into four equal sub-segments,
\* higher_highs (higher_lows) is true whenever the segment highs (lows) are
\* non-decreasing across three consecutive segments: segments 1-3 or
\* segments 2-4.
C22_Original ==
    (trend_called /\ Len(trend_history) >= 60)
        => /\ (NonDecreasingFrom(1, QuarterHigh) \/ NonDecreasingFrom(2, QuarterHigh))
                  => trend_out.higher_highs
           /\ (NonDecreasingFrom(1, QuarterLow) \/ NonDecreasingFrom(2, QuarterLow))
                  => trend_out.higher_lows

\* C22: with the 60-bar window split into four equal sub-segments,
\* higher_highs (higher_lows) is true exactly when the highs (lows) of
\* segments 1, 2 and 3 are known and non-decreasing; the fourth segment, the
\* latest 15 bars, is not compared.
C22_HigherAcrossFirstThree ==
    (trend_called /\ Len(trend_history) >= 60)
        => /\ trend_out.higher_highs <=> NonDecreasingFrom(1, QuarterHigh)
           /\ trend_out.higher_lows <=> NonDecreasingFrom(1, QuarterLow)

\* Highs that dip in the second quarter and rise through the third and the
\* fourth: non-decreasing across segments 2-4, higher_highs False.
RiseAcrossLastThree ==
    /\ trend_called
    /\ Len(trend_history) >= 60
    /\ NonDecreasingFrom(2, QuarterHigh)
    /\ ~NonDecreasingFrom(1, QuarterHigh)
    /\ ~trend_out.higher_highs

\* Highs that rise through three quarters and drop in the latest one:
\* higher_highs True.
C22_Witness ==
    /\ trend_called
    /\ Len(trend_history) >= 60
    /\ NonDecreasingFrom(1, QuarterHigh)
    /\ QuarterHigh(4) < QuarterHigh(1)
    /\ trend_out.higher_highs

(***************************************************************************)
(* Claims about the reclaim signal.                                        *)
(***************************************************************************)
\* The frame the pullback function was given, and the bars its loop scans:
\* the last five, when the frame has 15 bars or more.
PullbackFrame == SubSeq(trend_history, pullback_call.start, Len(trend_history))
ScannedBars ==
    IF Len(PullbackFrame) < 15 THEN {}
    ELSE (Len(PullbackFrame) - 4)..Len(PullbackFrame)

\* The signals reported for bar d of the frame; none when it has no record.
SignalsOn(d) ==
    UNION {SeqToSet(pullback_out.signals[k].signals) :
              k \in {x \in 1..Len(pullback_out.signals) : pullback_out.signals[x].date = d}}

\* Price closed at or under the 8-EMA on one of the 5 bars before bar d,
\* above the 21-EMA on each of them, and above the 8-EMA on bar d.
Reclaimed(d) ==
    /\ \E j \in (d - 5)..(d - 1) : ~(PullbackFrame[j].Close > PullbackFrame[j].EMA_8)
    /\ \A j \in (d - 5)..(d - 1) : PullbackFrame[j].Close > PullbackFrame[j].EMA_21
    /\ PullbackFrame[d].Close > PullbackFrame[d].EMA_8

\* C23: for each scanned bar, identify_pullback_entries emits 8EMA_Reclaim
\* exactly when price dropped below the 8-EMA at least once in the last
\* reclaim_lookback (5) bars, held above the 21-EMA throughout them, and is
\* back above the 8-EMA on the current bar.
C23_ReclaimSignal ==
    pullback_out.kind = "returned"
        => \A d \in ScannedBars : ("8EMA_Reclaim" \in SignalsOn(d)) <=> Reclaimed(d)

\* A dip under the 8-EMA five bars before the latest bar: the latest bar
\* carries the signal, and a bar scanned before the dip does not.
C23_Witness ==
    /\ pullback_call.module = "core.pullback_entries"
    /\ pullback_out.kind = "returned"
    /\ Len(PullbackFrame) = 15
    /\ ~(PullbackFrame[10].Close > PullbackFrame[10].EMA_8)
    /\ "8EMA_Reclaim" \in SignalsOn(15)
    /\ "8EMA_Reclaim" \notin SignalsOn(11)
    /\ SignalsOn(11) # {}

\* The same through enhanced_trading_algo's copy of the function.
ReclaimInEnhancedCopy ==
    /\ pullback_call.module = "enhanced_trading_algo"
    /\ Len(PullbackFrame) = 15
    /\ ~(PullbackFrame[10].Close > PullbackFrame[10].EMA_8)
    /\ "8EMA_Reclaim" \in SignalsOn(15)

\* A dip six bars before the latest bar is outside its five-bar lookback:
\* no signal on the latest bar, a signal on the bar before it.
DipOutsideLookback ==
    /\ pullback_out.kind = "returned"
    /\ Len(PullbackFrame) >= 15
    /\ ~(PullbackFrame[Len(PullbackFrame) - 6].Close
           > PullbackFrame[Len(PullbackFrame) - 6].EMA_8)
    /\ "8EMA_Reclaim" \notin SignalsOn(Len(PullbackFrame))
    /\ "8EMA_Reclaim" \in SignalsOn(Len(PullbackFrame) - 1)

\* A close under the 21-EMA among the five bars before the latest bar: no
\* signal on it, although the 8-EMA was lost and regained.
LostThe21Ema ==
    /\ pullback_out.kind = "returned"
    /\ Len(PullbackFrame) >= 15
    /\ \E j \in (Len(PullbackFrame) - 5)..(Len(PullbackFrame) - 1) :
           ~(PullbackFrame[j].Close > PullbackFrame[j].EMA_21)
    /\ \E j \in (Len(PullbackFrame) - 5)..(Len(PullbackFrame) - 1) :
           /\ ~(PullbackFrame[j].Close > PullbackFrame[j].EMA_8)
           /\ PullbackFrame[j].Close > PullbackFrame[j].EMA_21
    /\ PullbackFrame[Len(PullbackFrame)].Close > PullbackFrame[Len(PullbackFrame)].EMA_8
    /\ "8EMA_Reclaim" \notin SignalsOn(Len(PullbackFrame))

(***************************************************************************)
(* Claims about the weighting of the annual-earnings score.                *)
(***************************************************************************)
\* evaluate_a was called and got as far as a growth figure.
AnnualScored ==
    evaluator = "evaluate_a" /\ ~ev_out.raised /\ ev_out.metric.kind = "float"

\* The annual periods of the statement given, and its year-over-year growth
\* figures, most recent first.
AnnualPeriods == Len(ev_args.frame.dates)
AnnualGrowths ==
    get_annual_growths(SortIndex(ev_args.frame, find_earnings_row(ev_args.frame)))

\* The three sub-scores, from the growth and the ROE the call returned.
AnnualGrowthScore == GrowthScore(ev_out.metric.value, A_GROWTH_TARGET)
AnnualRoeScore ==
    IF ev_out.roe.kind = "float" THEN GrowthScore(ev_out.roe.value, A_ROE_TARGET)
    ELSE RZero
AnnualConsistency == ConsistencyScore(Head_(AnnualGrowths, 3), A_GROWTH_TARGET)

\* growth 50% / consistency 30% / ROE 20%, no discount
FullWeighting ==
    RClip(RAdd(RAdd(RMul(Rat(50, 100), AnnualGrowthScore),
                    RMul(Rat(30, 100), AnnualConsistency)),
               RMul(Rat(20, 100), AnnualRoeScore)),
          RZero, ROne)

\* growth 60% / consistency 15% / ROE 25%, times 0.80
LimitedWeighting ==
    RClip(RMul(RAdd(RAdd(RMul(Rat(60, 100), AnnualGrowthScore),
                         RMul(Rat(15, 100), AnnualConsistency)),
                    RMul(Rat(25, 100), AnnualRoeScore)),
               Rat(80, 100)),
          RZero, ROne)

\* C24: evaluate_a uses the full weighting (50% / 30% / 20%, no discount)
\* whenever at least 3 years of annual data are available, and the
\* limited-data weighting (60% / 15% / 25%, times 0.80) only when fewer than
\* 3 years are available.
C24_Original ==
    AnnualScored =>
        ev_out.score = IF AnnualPeriods >= 3 THEN FullWeighting ELSE LimitedWeighting

\* What evaluate_a does deliver: the full weighting needs three growth
\* figures, that is four annual periods.
WeightingByGrowthFigures ==
    AnnualScored =>
        ev_out.score = IF Len(AnnualGrowths) >= 3 THEN FullWeighting ELSE LimitedWeighting

\* Three annual periods, two growth figures: scored with the limited-data
\* weighting, which here differs from the full one.
ThreeYearsScoredAsLimited ==
    /\ AnnualScored
    /\ AnnualPeriods = 3
    /\ ev_out.score = LimitedWeighting
    /\ ev_out.score # FullWeighting

\* Four annual periods: scored with the full weighting.
FourYearsScoredInFull ==
    /\ AnnualScored
    /\ AnnualPeriods = 4
    /\ ev_out.score = FullWeighting
    /\ ev_out.score # LimitedWeighting

(***************************************************************************)
(* Claims about the ownership-level curve.                                 *)
(***************************************************************************)
LevelsScored == evaluator = "_score_ownership_level"

\* Both ownership levels lie between lo% and hi%.
BothWithin(lo, hi) ==
    /\ RLe(Rat(lo, 100), ev_args.held)
    /\ RLe(ev_args.other, Rat(hi, 100))

\* The change of the score per unit of ownership between the two levels.
LevelSlope ==
    RDiv(RSub(ev_out.metric.value, ev_out.score), RSub(ev_args.other, ev_args.held))

\* C25 as stated: the ownership-level score is rising on 0-10%, rising more
\* steeply on 10-30%, flat at its maximum on 30-60%, decaying gently on
\* 60-80%, decaying more steeply on 80-90%, and never below a fixed floor
\* beyond 90%.
C25_Original ==
    LevelsScored =>
        /\ BothWithin(0, 10) => RLt(RZero, LevelSlope)
        /\ BothWithin(10, 30) =>
               RLt(RDiv(score_ownership_level(Rat(10, 100)), Rat(10, 100)), LevelSlope)
        /\ BothWithin(30, 60) => ev_out.score = ROne /\ ev_out.metric.value = ROne
        /\ BothWithin(60, 80) => RLt(LevelSlope, RZero)
        /\ BothWithin(80, 90) => RLt(LevelSlope, Rat(0 - 3, 4))
        /\ RLe(Rat(90, 100), ev_args.held) => RLe(Rat(3, 10), ev_out.metric.value)

\* C25: the ownership-level score rises on 0-10% (3 per unit of ownership),
\* rises less steeply on 10-30% (2 per unit), still rises on 30-60% (1 per
\* unit) to its maximum of 1.0 at 60%, decays gently on 60-80% (0.75 per
\* unit), decays more steeply on 80-90% (2.5 per unit), and beyond 90% falls
\* no further than its floor of 0.3.
C25_OwnershipCurve ==
    LevelsScored =>
        /\ BothWithin(0, 10) => LevelSlope = RInt(3)
        /\ BothWithin(10, 30) => LevelSlope = RInt(2)
        /\ BothWithin(30, 60) => LevelSlope = ROne
        /\ BothWithin(60, 80) => LevelSlope = Rat(0 - 3, 4)
        /\ BothWithin(80, 90) => LevelSlope = Rat(0 - 5, 2)
        /\ RLe(Rat(90, 100), ev_args.held) =>
               /\ RLe(Rat(3, 10), ev_out.metric.value)
               /\ RLe(ev_out.metric.value, ev_out.score)
        /\ RLe(ev_out.score, ROne) /\ RLe(ev_out.metric.value, ROne)
        /\ ev_args.other = Rat(60, 100) => ev_out.metric.value = ROne

\* 30% and 60% ownership, the two ends of the ideal band: 0.7 and 1.0.
C25_Witness ==
    /\ LevelsScored
    /\ ev_args.held = Rat(30, 100)
    /\ ev_args.other = Rat(60, 100)
    /\ ev_out.score = Rat(7, 10)
    /\ ev_out.metric.value = ROne

\* 95% and 110% ownership: 0.45, then the floor of 0.3.
OwnershipFloorReached ==
    /\ LevelsScored
    /\ ev_args.held = Rat(95, 100)
    /\ ev_args.other = Rat(110, 100)
    /\ ev_out.score = Rat(45, 100)
    /\ ev_out.metric.value = Rat(3, 10)

(***************************************************************************)
(* Claims about the rising-50-EMA bonus.                                   *)
(***************************************************************************)
\* 10000 x the regime score of the evaluated bars when the rising-50-EMA
\* bonus of 0.20 is, or is not, part of the trend score.
TenThousandthsWithBonus(rising) ==
    LET close == EvaluatedBars[Len(EvaluatedBars)].Close
        e21 == ewm_out.ema_21[1]
        e50 == ewm_out.ema_50[1]
        e200 == ewm_out.ema_200[1]
        left == IF market_trend.distribution_days >= 5 THEN 0
                ELSE 5 - market_trend.distribution_days
    IN  600 * left
        + (IF market_trend.follow_through THEN 1500 ELSE 0)
        + 55 * ((IF close > e200 THEN 45 ELSE 0)
                + (IF e21 > e50 /\ e50 > e200 THEN 25 ELSE 0)
                + (IF rising THEN 20 ELSE 0)
                + (IF close > e21 THEN 10 ELSE 0))

\* C26: the rising-50-EMA bonus (0.20) is added to the market trend score
\* exactly when the latest 50-EMA value is greater than the 50-EMA value
\* N = 20 bars before the latest bar.
C26_Original ==
    (RegimeEvaluated /\ Len(EvaluatedBars) >= 50)
        => market_trend.score =
               Rat(TenThousandthsWithBonus(ewm_out.ema_50[1] > ewm_out.ema_50_prior[1]),
                   10000)

\* What both functions do deliver: the bonus is added exactly when the
\* latest 50-EMA is above ema_50.iloc[-20], its value 19 bars before the
\* latest bar.
RisingAgainstNineteenBarsBefore ==
    (RegimeEvaluated /\ Len(EvaluatedBars) >= 50)
        => market_trend.score =
               Rat(TenThousandthsWithBonus(ewm_out.ema_50[1] > ewm_out.ema_50_lookback[1]),
                   10000)

\* The 50-EMA is above its value of 19 bars before and not above its value
\* of 20 bars before: the bonus is in the score.
BonusWithoutRiseOverTwentyBars ==
    /\ RegimeEvaluated
    /\ Len(EvaluatedBars) >= 50
    /\ ewm_out.ema_50[1] > ewm_out.ema_50_lookback[1]
    /\ ewm_out.ema_50[1] <= ewm_out.ema_50_prior[1]
    /\ market_trend.score = Rat(TenThousandthsWithBonus(TRUE), 10000)

\* The 50-EMA is above its value of 20 bars before and not above its value
\* of 19 bars before: no bonus.
RiseOverTwentyBarsWithoutBonus ==
    /\ RegimeEvaluated
    /\ Len(EvaluatedBars) >= 50
    /\ ewm_out.ema_50[1] <= ewm_out.ema_50_lookback[1]
    /\ ewm_out.ema_50[1] > ewm_out.ema_50_prior[1]
    /\ market_trend.score = Rat(TenThousandthsWithBonus(FALSE), 10000)

(***************************************************************************)
(* Claims about the proximity-to-high ladder.                              *)
(***************************************************************************)
ProximitiesScored == evaluator = "proximity_score"

\* C27: the proximity-to-52-week-high sub-score of the N component is
\* monotonically non-decreasing in proximity over (0, 1]: a symbol closer to
\* its high never receives a lower proximity sub-score than one farther
\* from it.
C27_Original ==
    ProximitiesScored => RLe(ev_out.score, ev_out.metric.value)

\* What the ladder does deliver: the sub-score is non-decreasing among
\* proximities under 0.90 and among proximities of 0.90 and more.
ProximityMonotoneOnEachSide ==
    (/\ ProximitiesScored
     /\ RLt(ev_args.closer, Rat(90, 100)) \/ RLe(Rat(90, 100), ev_args.farther))
        => RLe(ev_out.score, ev_out.metric.value)

\* 11% off the high scores 0.28, 10% off the high scores 0.
CloserScoredLower ==
    /\ ProximitiesScored
    /\ ev_args.farther = Rat(89, 100)
    /\ ev_args.closer = Rat(90, 100)
    /\ ev_out.score = Rat(28, 100)
    /\ ev_out.metric.value = RZero

\* The same step in the backtest's copy of the ladder.
CloserScoredLowerInBacktest ==
    /\ ProximitiesScored
    /\ ev_args.ladder = "_evaluate_technical_at_date"
    /\ RLt(ev_out.metric.value, ev_out.score)

(***************************************************************************)
(* Claims about the override arguments of the evaluators.                  *)
(***************************************************************************)
NEvaluated == evaluator = "evaluate_n"

\* The N score evaluate_n returns when the two weights used are these.
NScoreWith(n_revenue_weight, n_proximity_weight) ==
    LET revenue_score == IF ev_out.metric.kind = "float"
                         THEN GrowthScore(ev_out.metric.value, N_REVENUE_GROWTH_TARGET)
                         ELSE RZero
    IN  RClip(RAdd(RMul(n_revenue_weight, revenue_score),
                   RMul(n_proximity_weight, ProximityScore(ev_args.proximity))),
              RZero, ROne)

\* The argument when it is supplied, the shared default when it is omitted.
SuppliedOr(arg, default) == IF arg = Missing THEN default ELSE arg

\* C28: an explicitly supplied override argument of an evaluator (for
\* example n_revenue_weight = 0 or n_proximity_weight = 0 in evaluate_n) is
\* always the value used in the computation; the shared default is used
\* only when the argument is omitted.
C28_Original ==
    NEvaluated =>
        ev_out.score =
            NScoreWith(SuppliedOr(ev_args.n_revenue_weight, N_REVENUE_GROWTH_WEIGHT),
                       SuppliedOr(ev_args.n_proximity_weight, N_PROXIMITY_TO_HIGH_WEIGHT))

\* What evaluate_n does deliver: a supplied weight other than zero is the
\* one used; an omitted weight and a weight of zero are both replaced by the
\* shared default.
NonZeroOverrideUsed ==
    NEvaluated =>
        ev_out.score =
            NScoreWith(IF ev_args.n_revenue_weight \in {Missing, RZero}
                       THEN N_REVENUE_GROWTH_WEIGHT ELSE ev_args.n_revenue_weight,
                       IF ev_args.n_proximity_weight \in {Missing, RZero}
                       THEN N_PROXIMITY_TO_HIGH_WEIGHT ELSE ev_args.n_proximity_weight)

\* Revenue weight 0.3 and proximity weight 0.7 on a symbol at its high
\* without revenue growth: the score is 0.7 by the weights supplied.
SuppliedWeightsUsed ==
    /\ NEvaluated
    /\ ev_args.n_revenue_weight = Rat(3, 10)
    /\ ev_args.n_proximity_weight = Rat(7, 10)
    /\ ev_args.proximity = ROne
    /\ ev_out.score = Rat(7, 10)

\* Both weights supplied as zero, and the score is not zero.
ZeroWeightsReplaced ==
    /\ NEvaluated
    /\ ev_args.n_revenue_weight = RZero
    /\ ev_args.n_proximity_weight = RZero
    /\ ev_args.proximity = ROne
    /\ ev_out.score = Rat(1, 2)

(***************************************************************************)
(* Claims about the two copies of the regime computation.                  *)
(***************************************************************************)
\* evaluate_m and _evaluate_market_at_date have both scored the benchmark
\* frame.
BothRegimesEvaluated == regime_caller = "evaluate_m" /\ at_date_out # NoTrend

\* C29: for every benchmark frame, evaluate_m's regime computation and
\* backtest._evaluate_market_at_date applied to the same bars yield the same
\* (score, is_bullish, distribution_days, follow_through): same
\* distribution-day count, same follow-through verdict, same trend bonuses
\* and same fewer-than-50-bars fallback.
C29_SameRegime ==
    BothRegimesEvaluated =>
        /\ at_date_out.score = market_trend.score
        /\ at_date_out.is_bullish = market_trend.is_bullish
        /\ at_date_out.distribution_days = market_trend.distribution_days
        /\ at_date_out.follow_through = market_trend.follow_through

\* Both functions scored a frame of 50 bars or more with a follow-through
\* day and a rising 50-EMA.
C29_Witness ==
    /\ BothRegimesEvaluated
    /\ Len(benchmark) >= M_MIN_BARS
    /\ at_date_out.follow_through
    /\ RLt(ewm_out.ema_50_lookback, ewm_out.ema_50)
    /\ at_date_out.is_bullish

\* Both functions counted distribution days on every bar of the window.
SameFullDistributionWindow ==
    /\ BothRegimesEvaluated
    /\ at_date_out.distribution_days = M_DISTRIBUTION_LOOKBACK
    /\ ~at_date_out.is_bullish

\* Both functions fell back on a frame of fewer than 50 bars.
SameFallback ==
    /\ BothRegimesEvaluated
    /\ Len(benchmark) < M_MIN_BARS
    /\ at_date_out = FallbackTrend
    /\ market_trend = FallbackTrend

(***************************************************************************)
(* Claims about what a cache hit covers.                                   *)
(***************************************************************************)
ServedFromCache(p) == pc[p] = "done" /\ cache_check[p] = "hit"

\* Every requested ticker that the table ranks is in the returned snapshot
\* with the same RS score.
CoversRequest(p, table) ==
    \A i \in 1..Len(table.rows) :
        table.rows[i].Ticker \in SeqToSet(tickers[p])
            => \E j \in 1..Len(ret[p].rows) :
                   /\ ret[p].rows[j].Ticker = table.rows[i].Ticker
                   /\ ret[p].rows[j].RS_Score = table.rows[i].RS_Score

\* C30: a same-day cache hit in calculate_rs_scores_for_tickers returns a
\* snapshot that covers the tickers passed to that call: every requested
\* ticker that a fresh computation for this call would rank is present in
\* the returned snapshot with the same RS score, regardless of which ticker
\* list an earlier call on the same day was made with.
C30_Original ==
    \A p \in Workers :
        ServedFromCache(p) =>
            \E fetch_ok \in BOOLEAN : CoversRequest(p, RankedFor[tickers[p], fetch_ok])

\* A call for CRWD served the table an earlier call of the day saved for GE:
\* CRWD, which a fresh computation ranks, is not in it, and its lookup gives
\* 0.0.
HitWithoutRequestedTicker ==
    /\ ServedFromCache("w1")
    /\ tickers["w1"] = <<"CRWD">>
    /\ \A fetch_ok \in BOOLEAN :
           \E i \in 1..Len(RankedFor[<<"CRWD">>, fetch_ok].rows) :
               RankedFor[<<"CRWD">>, fetch_ok].rows[i].Ticker = "CRWD"
    /\ \A j \in 1..Len(ret["w1"].rows) : ret["w1"].rows[j].Ticker # "CRWD"
    /\ \E j \in 1..Len(ret["w1"].rows) : ret["w1"].rows[j].Ticker = "GE"
    /\ lookup["w1"] = Returned(RZero)

\* A call served the table saved for the same ticker list: its ticker is in
\* it.
HitCoveringRequest ==
    /\ ServedFromCache("w1")
    /\ tickers["w1"] = <<"GE">>
    /\ \E fetch_ok \in BOOLEAN : CoversRequest("w1", RankedFor[<<"GE">>, fetch_ok])
    /\ \E j \in 1..Len(ret["w1"].rows) : ret["w1"].rows[j].Ticker = "GE"

=============================================================================
